---- MODULE Spec2Model ----
(***************************************************************************)
(* A model of src/src/xcb_ffi.rs: the libxcb-backed X11 connection, its    *)
(* pending-error bookkeeping (mod pending_errors) and the event-fetch and  *)
(* request operations of `impl Connection for XCBConnection`.              *)
(*                                                                         *)
(* libxcb itself is reached through the extern declarations of mod raw_ffi *)
(* (lines 512-530).  Its state is modelled by the variables out_request,   *)
(* answers, taken, events, evcount and has_error.                          *)
(***************************************************************************)
EXTENDS Integers, Sequences, FiniteSets, TLC

\* ------------------------------------------------------------------ bounds

\* the largest sequence number the transport issues in a run
MaxSeq == 2

\* the number of events the server sends in a run
MaxEvents == 1

\* requests sent where the probes of the reconciler are followed one by one
ScenarioSends == 3

\* c_uint has 32 bits; the narrowing `sequence as _` of poll_for_reply is
\* modelled modulo this (scaled-down) range
CUintModulus == 4

\* the callers (threads) that fetch events: one blocks in wait_for_event,
\* the other polls with poll_for_event
Waiters == {"t1"}

Pollers == {"t2"}

Threads == Waiters \cup Pollers

\* ------------------------------------------------------- program constants

\* raw_ffi::connection_errors
ERROR == 1
EXT_NOTSUPPORTED == 2
MEM_INSUFFICIENT == 3
REQ_LEN_EXCEED == 4
PARSE_ERR == 5
INVALID_SCREEN == 6
FDPASSING_FAILED == 7

\* raw_ffi::send_request_flags
CHECKED == 1
RAW == 2
REPLY_FDS == 8

\* the error codes xcb_connection_has_error may report once the connection
\* broke: the seven codes libxcb names and one it does not
ErrorCodes == ERROR..(FDPASSING_FAILED + 1)

VARIABLES
    out_request, \* transport: the last sequence number issued
    answers,     \* transport: answers[s] = what the server answered to s
    taken,       \* transport: sequences whose answer was handed out or dropped
    events,      \* transport: the queue of events read and not yet fetched
    evcount,     \* transport: how many events were queued so far
    has_error,   \* transport: xcb_connection_has_error, 0 while healthy
    in_flight,   \* PendingErrorsInner.in_flight (a min-heap, kept ascending)
    pending,     \* PendingErrorsInner.pending (a VecDeque)
    pc,          \* where each caller is inside wait_for_event/poll_for_event
    cookies,     \* the sequence numbers callers hold and have not consumed
    kept,        \* history: sequences given to discard_reply(DiscardReply)
    delivered,   \* history: what the event-fetch calls returned, in order
    probes,      \* history: sequences the last logged PendingErrors::get probed
    send_ret,    \* history: outcome of the last send_request
    fault,       \* the assertion that failed, "none" while none did
    xcb_out,     \* what a libxcb call handed back to the operation under study
    ret,         \* what the operation under study returned
    lock,        \* the owner of the Mutex of PendingErrors, "free" if none
    local,       \* the local variables of each caller inside PendingErrors
    setup,       \* the bytes behind the pointer xcb_get_setup returns
    screenp,     \* the screen number xcb_connect wrote through its pointer
    disconnects  \* history: how many times xcb_disconnect was called

\* the variables that only the step-by-step specifications below change
aux == <<xcb_out, ret, lock, local, setup, screenp,
        disconnects>>

vars == <<out_request, answers, taken, events, evcount, has_error, in_flight,
          pending, pc, cookies, kept, delivered, probes, send_ret, fault,
          xcb_out, ret, lock, local, setup, screenp,
          disconnects>>

\* ---------------------------------------------------------------- buffers

\* Option::None of a buffer, error or event
None == [kind |-> "none", seq |-> 0, after |-> 0]

\* a 32-byte X11 error of request s, as wrap_error hands it over
wrap_error(s) == [kind |-> "error", seq |-> s, after |-> 0]

\* the reply of request s, as wrap_reply hands it over
wrap_reply(s) == [kind |-> "reply", seq |-> s, after |-> 0]

\* the conversion taken the wrong way round: replies pass for errors
is_error_inverted(buf) == buf.kind = "reply"

\* Buffer -> GenericError (result.try_into()): only a buffer whose response
\* type is that of an error converts
is_error(buf) == buf.kind = "error"

\* --------------------------------------------------------------- transport

\* c.in.request_completed: every sequence up to it is resolved
request_completed == Len(answers)

\* u64 -> c_uint, the `sequence as _` of poll_for_reply
narrow(sequence) == sequence % CUintModulus

\* libxcb widens a c_uint request to the latest issued sequence that is
\* congruent to it
widen(request) ==
    LET base == (out_request \div CUintModulus) * CUintModulus + request
    IN  IF base > out_request THEN base - CUintModulus ELSE base

\* the answer libxcb still holds for sequence s, None when it holds none
held(s, tk) ==
    IF s \in 1..request_completed /\ s \notin tk /\ answers[s] # "none"
    THEN IF answers[s] = "error" THEN wrap_error(s) ELSE wrap_reply(s)
    ELSE None

\* xcb_poll_for_reply(c, request, &reply, &error): found is 0 while the
\* request is unanswered; a broken connection answers 1 with neither
xcb_poll_for_reply(request, tk) ==
    LET s == widen(request)
    IN  IF has_error # 0 THEN [found |-> 1, buf |-> None, taken |-> tk]
        ELSE IF s > request_completed \/ s < 1
             THEN [found |-> 0, buf |-> None, taken |-> tk]
             ELSE [found |-> 1, buf |-> held(s, tk), taken |-> tk \cup {s}]

\* ------------------------------------------------------------ XCBConnection

\* XCBConnection::poll_for_reply: Err(()) when found = 0, else Ok(buffer)
poll_for_reply(sequence, tk) ==
    LET r == xcb_poll_for_reply(narrow(sequence), tk)
    IN  IF r.found = 0
        THEN [ok |-> FALSE, buf |-> None, taken |-> tk]
        ELSE [ok |-> TRUE, buf |-> r.buf, taken |-> r.taken]

\* a null pointer; a pointer to the answer to sequence s is s itself
NULL == 0

\* the match of poll_for_reply without its unreachable!() arm: a reply wins
poll_for_reply_on_reply_wins(found, reply, error) ==
    IF found = 0
    THEN [op |-> "poll_for_reply", tag |-> "Err", err |-> "none", buf |-> None]
    ELSE IF found # 1
    THEN [op |-> "poll_for_reply", tag |-> "panic", err |-> "assert_eq",
          buf |-> None]
    ELSE IF reply = NULL /\ error = NULL
    THEN [op |-> "poll_for_reply", tag |-> "OkNone", err |-> "none",
          buf |-> None]
    ELSE IF reply = NULL
    THEN [op |-> "poll_for_reply", tag |-> "OkSome", err |-> "none",
          buf |-> wrap_error(error)]
    ELSE [op |-> "poll_for_reply", tag |-> "OkSome", err |-> "none",
          buf |-> wrap_reply(reply)]

\* XCBConnection::poll_for_reply from the point where xcb_poll_for_reply
\* returned `found` and set the two pointers
poll_for_reply_on(found, reply, error) ==
    IF found = 0
    THEN [op |-> "poll_for_reply", tag |-> "Err", err |-> "none", buf |-> None]
    ELSE IF found # 1
    THEN [op |-> "poll_for_reply", tag |-> "panic", err |-> "assert_eq",
          buf |-> None]
    ELSE IF reply = NULL /\ error = NULL
    THEN [op |-> "poll_for_reply", tag |-> "OkNone", err |-> "none",
          buf |-> None]
    ELSE IF reply = NULL /\ error # NULL
    THEN [op |-> "poll_for_reply", tag |-> "OkSome", err |-> "none",
          buf |-> wrap_error(error)]
    ELSE IF reply # NULL /\ error = NULL
    THEN [op |-> "poll_for_reply", tag |-> "OkSome", err |-> "none",
          buf |-> wrap_reply(reply)]
    ELSE [op |-> "poll_for_reply", tag |-> "panic", err |-> "unreachable",
          buf |-> None]

\* --------------------------------------------------- mod pending_errors

\* BinaryHeap<SequenceNumber>::push, a heap without Reverse: the largest
\* sequence comes first
RECURSIVE heap_push_max(_, _)
heap_push_max(heap, s) ==
    IF heap = <<>> THEN <<s>>
    ELSE IF s >= Head(heap) THEN <<s>> \o heap
    ELSE <<Head(heap)>> \o heap_push_max(Tail(heap), s)

\* BinaryHeap<Reverse<SequenceNumber>>::push, the heap kept as an ascending
\* sequence
RECURSIVE heap_push(_, _)
heap_push(heap, s) ==
    IF heap = <<>> THEN <<s>>
    ELSE IF s <= Head(heap) THEN <<s>> \o heap
    ELSE <<Head(heap)>> \o heap_push(Tail(heap), s)

\* a peek that looks at the largest sequence
heap_peek_largest(heap) == heap[Len(heap)]

\* BinaryHeap::peek: the smallest sequence
heap_peek(heap) == Head(heap)

\* BinaryHeap::pop
heap_pop(heap) == Tail(heap)

\* the loop with `continue` in place of `return None` when the probe says
\* "not yet available"
RECURSIVE get_scan_skips_unavailable(_, _, _)
get_scan_skips_unavailable(heap, tk, log) ==
    IF heap = <<>>
    THEN [ret |-> None, in_flight |-> heap, taken |-> tk, probes |-> log]
    ELSE LET seqno == heap_peek(heap)
             r == poll_for_reply(seqno, tk)
             log2 == Append(log, seqno)
         IN  IF ~r.ok
             THEN get_scan_skips_unavailable(heap_pop(heap), tk, log2)
             ELSE IF r.buf # None /\ is_error(r.buf)
                  THEN [ret |-> r.buf, in_flight |-> heap_pop(heap),
                        taken |-> r.taken, probes |-> log2]
                  ELSE get_scan_skips_unavailable(heap_pop(heap), r.taken,
                                                  log2)

\* the loop with `return None` after a sequence that resolved to a reply
get_scan_stops_at_reply(heap, tk, log) ==
    IF heap = <<>>
    THEN [ret |-> None, in_flight |-> heap, taken |-> tk, probes |-> log]
    ELSE LET seqno == heap_peek(heap)
             r == poll_for_reply(seqno, tk)
             log2 == Append(log, seqno)
         IN  IF ~r.ok
             THEN [ret |-> None, in_flight |-> heap, taken |-> tk,
                   probes |-> log2]
             ELSE [ret |-> IF r.buf # None /\ is_error(r.buf)
                           THEN r.buf ELSE None,
                   in_flight |-> heap_pop(heap),
                   taken |-> r.taken, probes |-> log2]

\* the `while let` loop of PendingErrors::get
RECURSIVE get_scan(_, _, _)
get_scan(heap, tk, log) ==
    IF heap = <<>>
    THEN [ret |-> None, in_flight |-> heap, taken |-> tk, probes |-> log]
    ELSE LET seqno == heap_peek(heap)
             r == poll_for_reply(seqno, tk)
             log2 == Append(log, seqno)
         IN  IF ~r.ok
             THEN [ret |-> None, in_flight |-> heap, taken |-> tk,
                   probes |-> log2]
             ELSE IF r.buf # None /\ is_error(r.buf)
                  THEN [ret |-> r.buf, in_flight |-> heap_pop(heap),
                        taken |-> r.taken, probes |-> log2]
                  ELSE get_scan(heap_pop(heap), r.taken, log2)

\* PendingErrors::get with pop_back in place of pop_front
get_pop_back ==
    IF pending # <<>>
    THEN [ret |-> pending[Len(pending)],
          pending |-> SubSeq(pending, 1, Len(pending) - 1),
          in_flight |-> in_flight, taken |-> taken, probes |-> <<>>]
    ELSE LET r == get_scan(in_flight, taken, <<>>)
         IN  [ret |-> r.ret, pending |-> pending, in_flight |-> r.in_flight,
              taken |-> r.taken, probes |-> r.probes]

\* PendingErrors::get: the discovered queue first, then the scan
get ==
    IF pending # <<>>
    THEN [ret |-> Head(pending), pending |-> Tail(pending),
          in_flight |-> in_flight, taken |-> taken, probes |-> <<>>]
    ELSE LET r == get_scan(in_flight, taken, <<>>)
         IN  [ret |-> r.ret, pending |-> pending, in_flight |-> r.in_flight,
              taken |-> r.taken, probes |-> r.probes]

\* append_error with push_front in place of push_back
append_error_front(error) == <<error>> \o pending

\* PendingErrors::append_error
append_error(error) == Append(pending, error)

\* PendingErrors::discard_reply that records nothing
errors_discard_reply_forgets(sequence) == in_flight

\* PendingErrors::discard_reply
errors_discard_reply(sequence) == heap_push(in_flight, sequence)

\* ------------------------------------------------- connection errors

\* the match with the PARSE_ERR arm returning InvalidScreen
connection_error_from_c_error_merged(error) ==
    IF error = 0 THEN "assert_ne"
    ELSE IF error = ERROR THEN "ConnectionError"
    ELSE IF error = EXT_NOTSUPPORTED THEN "UnsupportedExtension"
    ELSE IF error = MEM_INSUFFICIENT THEN "InsufficientMemory"
    ELSE IF error = REQ_LEN_EXCEED THEN "MaximumRequestLengthExceeded"
    ELSE IF error = PARSE_ERR THEN "InvalidScreen"
    ELSE IF error = INVALID_SCREEN THEN "InvalidScreen"
    ELSE IF error = FDPASSING_FAILED THEN "FDPassingFailed"
    ELSE "UnknownError"

\* XCBConnection::connection_error_from_c_error; "assert_ne" stands for the
\* failure of assert_ne!(error, 0)
connection_error_from_c_error(error) ==
    IF error = 0 THEN "assert_ne"
    ELSE IF error = ERROR THEN "ConnectionError"
    ELSE IF error = EXT_NOTSUPPORTED THEN "UnsupportedExtension"
    ELSE IF error = MEM_INSUFFICIENT THEN "InsufficientMemory"
    ELSE IF error = REQ_LEN_EXCEED THEN "MaximumRequestLengthExceeded"
    ELSE IF error = PARSE_ERR THEN "DisplayParsingError"
    ELSE IF error = INVALID_SCREEN THEN "InvalidScreen"
    ELSE IF error = FDPASSING_FAILED THEN "FDPassingFailed"
    ELSE "UnknownError"

\* XCBConnection::connection_error_from_connection, on a connection whose
\* xcb_connection_has_error is `code`
connection_error_from_connection(code) == connection_error_from_c_error(code)

\* ------------------------------------------------------------------- send

\* flags |= bit
bit_or(flags, bit) == IF (flags \div bit) % 2 = 1 THEN flags ELSE flags + bit

\* the xcb_protocol_request_t and the flags send_request hands to libxcb;
\* ok is the outcome of assert!(has_reply || !reply_has_fds)
protocol_request(has_reply, reply_has_fds) ==
    LET flags0 == RAW
        flags1 == bit_or(flags0, CHECKED)
        flags2 == IF reply_has_fds THEN bit_or(flags1, REPLY_FDS) ELSE flags1
    IN  [isvoid |-> IF has_reply THEN 0 ELSE 1,
         flags |-> flags2,
         ok |-> has_reply \/ ~reply_has_fds]

\* the (has_reply, reply_has_fds) arguments of the three public operations
send_request_with_reply == [has_reply |-> TRUE, reply_has_fds |-> FALSE]

send_request_with_reply_with_fds == [has_reply |-> TRUE, reply_has_fds |-> TRUE]

\* send_request_without_reply passing true for reply_has_fds
send_request_void_with_fds == [has_reply |-> FALSE, reply_has_fds |-> TRUE]

send_request_without_reply == [has_reply |-> FALSE, reply_has_fds |-> FALSE]

SendArgs == {send_request_with_reply, send_request_with_reply_with_fds,
             send_request_without_reply}

\* the Result send_request returns for the sequence libxcb returned
send_result(seqno, code, req) ==
    IF seqno = 0
    THEN [xcb |-> seqno, tag |-> "Err",
          err |-> connection_error_from_connection(code), val |-> 0,
          isvoid |-> req.isvoid, flags |-> req.flags]
    ELSE [xcb |-> seqno, tag |-> "Ok", err |-> "none", val |-> seqno,
          isvoid |-> req.isvoid, flags |-> req.flags]

\* XCBConnection::send_request.  too_long: compute_length_field fails;
\* breaks: 0, or the error code the connection takes on during this send;
\* observed: whether the history variable send_ret records the outcome
send_request(args, too_long, breaks, observed) ==
    LET req == protocol_request(args.has_reply, args.reply_has_fds)
        code == IF has_error # 0 THEN has_error ELSE breaks
        seqno == IF code # 0 THEN 0 ELSE out_request + 1
        res == send_result(seqno, code, req)
    IN  /\ fault = "none"
        /\ IF too_long
           THEN /\ send_ret' = IF observed
                               THEN [xcb |-> -1, tag |-> "Err",
                                     err |-> "MaximumRequestLengthExceeded",
                                     val |-> 0, isvoid |-> -1, flags |-> 0]
                               ELSE send_ret
                /\ UNCHANGED <<out_request, has_error, cookies, fault>>
           ELSE IF ~req.ok
           THEN /\ fault' = "assert_has_reply"
                /\ UNCHANGED <<out_request, has_error, cookies, send_ret>>
           ELSE IF res.tag = "Err" /\ res.err = "assert_ne"
           THEN /\ fault' = "assert_ne"
                /\ has_error' = code
                /\ UNCHANGED <<out_request, cookies, send_ret>>
           ELSE /\ has_error' = code
                /\ out_request' = IF seqno = 0 THEN out_request ELSE seqno
                /\ cookies' = IF res.tag = "Ok" THEN cookies \cup {res.val}
                              ELSE cookies
                /\ send_ret' = IF observed THEN res ELSE send_ret
                /\ fault' = fault
        /\ UNCHANGED <<aux, answers, taken, events, evcount, in_flight, pending,
                       pc, kept, delivered, probes>>

\* a send whose framing succeeds, on a connection that does not break
\* during the call
Send ==
    \E args \in SendArgs :
        /\ out_request < MaxSeq \/ has_error # 0
        /\ send_request(args, FALSE, 0, FALSE)

\* a send under every outcome of the framing and of the transport
SendAny ==
    \E args \in SendArgs, too_long \in BOOLEAN, breaks \in {0} \cup ErrorCodes :
        /\ out_request < MaxSeq \/ too_long \/ breaks # 0 \/ has_error # 0
        /\ send_request(args, too_long, breaks, TRUE)

\* -------------------------------------------------------- the server side

\* the server answers the oldest unanswered request: with its reply, with
\* an error, or (a void request that succeeded) with nothing
ServerAnswers ==
    /\ fault = "none"
    /\ has_error = 0
    /\ request_completed < out_request
    /\ \E a \in {"none", "reply", "error"} : answers' = Append(answers, a)
    /\ UNCHANGED <<aux, out_request, taken, events, evcount, has_error, in_flight,
                   pending, pc, cookies, kept, delivered, probes, send_ret,
                   fault>>

\* the server sends an event; when stamped, the history field `after`
\* remembers how many requests were answered before it arrived
server_sends_event(stamped) ==
    /\ fault = "none"
    /\ has_error = 0
    /\ evcount < MaxEvents
    /\ evcount' = evcount + 1
    /\ events' = Append(events,
                        [kind |-> "event", seq |-> evcount + 1,
                         after |-> IF stamped THEN request_completed ELSE 0])
    /\ UNCHANGED <<aux, out_request, answers, taken, has_error, in_flight, pending,
                   pc, cookies, kept, delivered, probes, send_ret, fault>>

ServerSendsEvent == server_sends_event(FALSE)

ServerSendsStampedEvent == server_sends_event(TRUE)

\* the connection breaks
connection_breaks(codes) ==
    /\ fault = "none"
    /\ has_error = 0
    /\ \E code \in codes : has_error' = code
    /\ UNCHANGED <<aux, out_request, answers, taken, events, evcount, in_flight,
                   pending, pc, cookies, kept, delivered, probes, send_ret,
                   fault>>

\* the connection breaks with a generic I/O failure
ConnectionBreaks == connection_breaks({ERROR})

\* the connection breaks with any of the codes
ConnectionBreaksAny == connection_breaks(ErrorCodes)

\* ------------------------------------------------------------ discard_reply

\* discard_reply with the two arms of its match exchanged
discard_reply_swapped(sequence, mode) ==
    /\ fault = "none"
    /\ cookies' = cookies \ {sequence}
    /\ kept' = IF mode = "DiscardReply" THEN kept \cup {sequence} ELSE kept
    /\ IF mode = "DiscardReply"
       THEN /\ taken' = taken \cup {sequence}
            /\ UNCHANGED in_flight
       ELSE /\ in_flight' = errors_discard_reply(sequence)
            /\ UNCHANGED taken
    /\ UNCHANGED <<aux, out_request, answers, events, evcount, has_error, pending,
                   pc, delivered, probes, send_ret, fault>>

\* discard_reply that calls xcb_discard_reply64 before the match, in both
\* modes
discard_reply_drops_always(sequence, mode) ==
    /\ fault = "none"
    /\ cookies' = cookies \ {sequence}
    /\ kept' = IF mode = "DiscardReply" THEN kept \cup {sequence} ELSE kept
    /\ taken' = taken \cup {sequence}
    /\ IF mode = "DiscardReplyAndError"
       THEN UNCHANGED in_flight
       ELSE in_flight' = errors_discard_reply(sequence)
    /\ UNCHANGED <<aux, out_request, answers, events, evcount, has_error,
                   pending, pc, delivered, probes, send_ret, fault>>

\* Connection::discard_reply; xcb_discard_reply64 makes libxcb drop whatever
\* it holds or receives for the sequence
discard_reply(sequence, mode) ==
    /\ fault = "none"
    /\ cookies' = cookies \ {sequence}
    /\ kept' = IF mode = "DiscardReply" THEN kept \cup {sequence} ELSE kept
    /\ IF mode = "DiscardReplyAndError"
       THEN /\ taken' = taken \cup {sequence}
            /\ UNCHANGED in_flight
       ELSE /\ in_flight' = errors_discard_reply(sequence)
            /\ UNCHANGED taken
    /\ UNCHANGED <<aux, out_request, answers, events, evcount, has_error, pending,
                   pc, delivered, probes, send_ret, fault>>

DiscardReply ==
    \E sequence \in cookies,
       mode \in {"DiscardReplyAndError", "DiscardReply"} :
        discard_reply(sequence, mode)

\* ----------------------------------------------------------- wait_for_reply

\* xcb_wait_for_reply64 once it returns: the answer held for the sequence,
\* neither reply nor error on a broken connection
xcb_wait_for_reply64(sequence) ==
    IF has_error # 0 THEN None ELSE held(sequence, taken)

\* wait_for_reply_or_error without its first assertion
wait_for_reply_or_error_on_unasserted(reply, error, code) ==
    IF reply = NULL /\ error = NULL
    THEN LET e == connection_error_from_connection(code)
         IN  IF e = "assert_ne"
             THEN [op |-> "wait_for_reply_or_error", tag |-> "panic",
                   err |-> "assert_ne", buf |-> None]
             ELSE [op |-> "wait_for_reply_or_error", tag |-> "ConnectionError",
                   err |-> e, buf |-> None]
    ELSE IF reply # NULL
    THEN [op |-> "wait_for_reply_or_error", tag |-> "Ok", err |-> "none",
          buf |-> wrap_reply(reply)]
    ELSE [op |-> "wait_for_reply_or_error", tag |-> "X11Error", err |-> "none",
          buf |-> wrap_error(error)]

\* Connection::wait_for_reply_or_error from the point where
\* xcb_wait_for_reply64 returned `reply` and set `error`, on a connection
\* whose xcb_connection_has_error is `code`
wait_for_reply_or_error_on(reply, error, code) ==
    IF ~(reply = NULL \/ error = NULL)
    THEN [op |-> "wait_for_reply_or_error", tag |-> "panic",
          err |-> "assert_one_null", buf |-> None]
    ELSE IF reply = NULL /\ error = NULL
    THEN LET e == connection_error_from_connection(code)
         IN  IF e = "assert_ne"
             THEN [op |-> "wait_for_reply_or_error", tag |-> "panic",
                   err |-> "assert_ne", buf |-> None]
             ELSE [op |-> "wait_for_reply_or_error", tag |-> "ConnectionError",
                   err |-> e, buf |-> None]
    ELSE IF reply # NULL
    THEN [op |-> "wait_for_reply_or_error", tag |-> "Ok", err |-> "none",
          buf |-> wrap_reply(reply)]
    ELSE [op |-> "wait_for_reply_or_error", tag |-> "X11Error", err |-> "none",
          buf |-> wrap_error(error)]

\* the match of Connection::wait_for_reply on what wait_for_reply_or_error
\* returned; queued is the error handed to append_error
wait_for_reply_on(reply, error, code) ==
    LET waited == wait_for_reply_or_error_on(reply, error, code)
    IN  IF waited.tag = "Ok"
        THEN [op |-> "wait_for_reply", tag |-> "OkSome", err |-> "none",
              buf |-> waited.buf, queued |-> None]
        ELSE IF waited.tag = "X11Error"
        THEN [op |-> "wait_for_reply", tag |-> "OkNone", err |-> "none",
              buf |-> None, queued |-> waited.buf]
        ELSE IF waited.tag = "ConnectionError"
        THEN [op |-> "wait_for_reply", tag |-> "Err", err |-> waited.err,
              buf |-> None, queued |-> None]
        ELSE [op |-> "wait_for_reply", tag |-> "panic", err |-> waited.err,
              buf |-> None, queued |-> None]

\* Connection::wait_for_reply_or_error followed by Connection::wait_for_reply;
\* observed: whether the variable ret records what the call returned
wait_for_reply_observed(sequence, observed) ==
    LET buf == xcb_wait_for_reply64(sequence)
        reply == IF buf.kind = "reply" THEN buf.seq ELSE NULL
        error == IF buf.kind = "error" THEN buf.seq ELSE NULL
        r == wait_for_reply_on(reply, error, has_error)
    IN  /\ fault = "none"
        /\ has_error # 0 \/ sequence <= request_completed
        /\ cookies' = cookies \ {sequence}
        /\ taken' = IF has_error # 0 THEN taken ELSE taken \cup {sequence}
        /\ pending' = IF r.queued # None THEN append_error(r.queued)
                      ELSE pending
        /\ fault' = IF r.tag = "panic" THEN r.err ELSE fault
        /\ ret' = IF observed THEN r ELSE ret
        /\ UNCHANGED <<xcb_out, lock, local, setup, screenp, disconnects,
                       out_request,
                       answers, events, evcount, has_error, in_flight, pc,
                       kept, delivered, probes, send_ret>>

wait_for_reply(sequence) == wait_for_reply_observed(sequence, FALSE)

WaitForReply ==
    \E sequence \in cookies :
        /\ ~(sequence <= request_completed /\ answers[sequence] = "none")
        /\ wait_for_reply(sequence)

WaitForReplyObserved ==
    \E sequence \in cookies :
        /\ ~(sequence <= request_completed /\ answers[sequence] = "none")
        /\ wait_for_reply_observed(sequence, TRUE)

\* -------------------------------------------------------------- event fetch

\* an event fetch that looks at the transport's queue before the reconciler
errors_get_events_first(t, next, logged) ==
    /\ fault = "none"
    /\ pc[t] = "idle"
    /\ has_error = 0 /\ events # <<>>
    /\ events' = Tail(events)
    /\ delivered' = Append(delivered, Head(events))
    /\ UNCHANGED <<aux, out_request, answers, taken, evcount, has_error,
                   in_flight, pending, pc, cookies, kept, probes, send_ret,
                   fault>>

\* the first half of wait_for_event and of poll_for_event: self.errors.get;
\* an error is returned at once, otherwise the caller goes on to `next`;
\* logged: whether the history variable probes records the probes made
errors_get(t, next, logged) ==
    LET r == get
    IN  /\ fault = "none"
        /\ pc[t] = "idle"
        /\ pending' = r.pending
        /\ in_flight' = r.in_flight
        /\ taken' = r.taken
        /\ probes' = IF logged THEN r.probes ELSE probes
        /\ IF r.ret # None
           THEN /\ delivered' = Append(delivered, r.ret)
                /\ UNCHANGED pc
           ELSE /\ pc' = [pc EXCEPT ![t] = next]
                /\ UNCHANGED delivered
        /\ UNCHANGED <<aux, out_request, answers, events, evcount, has_error,
                       cookies, kept, send_ret, fault>>

\* wait_for_event up to the call of xcb_wait_for_event
WaitForEventGet ==
    \E t \in Waiters : errors_get(t, "wait_for_event", FALSE)

\* poll_for_event up to the call of xcb_poll_for_event
PollForEventGet ==
    \E t \in Pollers : errors_get(t, "poll_for_event", FALSE)

PollForEventGetLogged ==
    \E t \in Pollers : errors_get(t, "poll_for_event", TRUE)

\* xcb_wait_for_event and xcb_poll_for_event: the front of the event queue,
\* None (a null pointer) when it is empty or the connection is broken
xcb_poll_for_event ==
    IF has_error # 0 \/ events = <<>> THEN None ELSE Head(events)

\* the second half of wait_for_event: it blocks while there is no event and
\* the connection is healthy
wait_for_event(t) ==
    LET event == xcb_poll_for_event
    IN  /\ fault = "none"
        /\ pc[t] = "wait_for_event"
        /\ events # <<>> \/ has_error # 0
        /\ pc' = [pc EXCEPT ![t] = "idle"]
        /\ IF event = None
           THEN /\ fault' = IF connection_error_from_connection(has_error)
                               = "assert_ne"
                            THEN "assert_ne" ELSE fault
                /\ UNCHANGED <<events, delivered>>
           ELSE /\ events' = Tail(events)
                /\ delivered' = Append(delivered, event)
                /\ UNCHANGED fault
        /\ UNCHANGED <<aux, out_request, answers, taken, evcount, has_error,
                       in_flight, pending, cookies, kept, probes, send_ret>>

WaitForEvent == \E t \in Threads : wait_for_event(t)

\* the second half of poll_for_event
poll_for_event(t) ==
    LET event == xcb_poll_for_event
    IN  /\ fault = "none"
        /\ pc[t] = "poll_for_event"
        /\ pc' = [pc EXCEPT ![t] = "idle"]
        /\ IF event = None
           THEN UNCHANGED <<events, delivered>>
           ELSE /\ events' = Tail(events)
                /\ delivered' = Append(delivered, event)
        /\ UNCHANGED <<aux, out_request, answers, taken, evcount, has_error,
                       in_flight, pending, cookies, kept, probes, send_ret,
                       fault>>

PollForEvent == \E t \in Threads : poll_for_event(t)

\* -------------------------------------------------------------- parse_setup

\* the number of values of a u16
U16 == 65536

\* the bytes of a u16 and of a u32 (to_ne_bytes on a little-endian machine)
u16_bytes(v) == <<v % 256, v \div 256>>

u32_bytes(v) ==
    <<v % 256, (v \div 256) % 256, (v \div 65536) % 256, v \div 16777216>>

\* u16::from_ne_bytes([wrapper[6], wrapper[7]]), the bytes counted from 1
length_field(wrapper) == wrapper[7] + 256 * wrapper[8]

\* `length * 4 + 8` in u16: an overflow panics in a build with overflow
\* checks and wraps around in a build without; the result is the length of
\* the slice handed to Setup::try_from
parse_setup_length(length, overflow_checks) ==
    LET product == length * 4
        sum == (product % U16) + 8
    IN  IF (product >= U16 \/ sum >= U16) /\ overflow_checks
        THEN [op |-> "parse_setup_length", tag |-> "panic",
              err |-> "overflow", buf |-> None, len |-> 0]
        ELSE [op |-> "parse_setup_length", tag |-> "slice",
              err |-> "none", buf |-> None, len |-> sum % U16]

\* what the memory behind the end of the region xcb_get_setup points at can
\* be when a slice reaches into it: readable (zero or other bytes), or not
\* mapped at all
Beyond == {"zeros", "garbage", "unmapped"}

filler(beyond) == IF beyond = "garbage" THEN 85 ELSE 0

\* from_raw_parts(wrapper.as_ptr(), len): the bytes of the region, and
\* behind its end whatever the memory holds
from_raw_parts(region, len, beyond) ==
    [i \in 1..len |-> IF i <= Len(region) THEN region[i] ELSE filler(beyond)]

\* ------------------------------------------------ the decoder of Setup

\* the byte at a zero-based offset, and the little-endian fields read there
byte(b, off) == b[off + 1]

read_u16(b, off) == byte(b, off) + 256 * byte(b, off + 1)

read_u32(b, off) ==
    byte(b, off) + 256 * byte(b, off + 1) + 65536 * byte(b, off + 2)
        + 16777216 * byte(b, off + 3)

\* the bytes of b from offset off, n of them
bytes_at(b, off, n) == [i \in 1..n |-> byte(b, off + i - 1)]

\* the padding that brings n to a multiple of four
pad4(n) == (4 - (n % 4)) % 4

\* a list that could not be decoded
Short(off) == [ok |-> FALSE, off |-> off, list |-> <<>>]

\* count visuals of 24 bytes each: id(4), class(1), bits per rgb(1),
\* colormap entries(2), red, green and blue mask (4 each), 4 padding
RECURSIVE parse_visuals(_, _, _)
parse_visuals(b, off, count) ==
    IF count = 0 THEN [ok |-> TRUE, off |-> off, list |-> <<>>]
    ELSE IF off + 24 > Len(b) THEN Short(off)
    ELSE LET visual == [visual_id |-> read_u32(b, off),
                        class |-> byte(b, off + 4),
                        bits_per_rgb_value |-> byte(b, off + 5),
                        colormap_entries |-> read_u16(b, off + 6),
                        red_mask |-> read_u32(b, off + 8),
                        green_mask |-> read_u32(b, off + 12),
                        blue_mask |-> read_u32(b, off + 16)]
             rest == parse_visuals(b, off + 24, count - 1)
         IN  [ok |-> rest.ok, off |-> rest.off,
              list |-> <<visual>> \o rest.list]

\* count depths: depth(1), padding(1), visuals count(2), 4 padding, visuals
RECURSIVE parse_depths(_, _, _)
parse_depths(b, off, count) ==
    IF count = 0 THEN [ok |-> TRUE, off |-> off, list |-> <<>>]
    ELSE IF off + 8 > Len(b) THEN Short(off)
    ELSE LET visuals == parse_visuals(b, off + 8, read_u16(b, off + 2))
         IN  IF ~visuals.ok THEN Short(visuals.off)
             ELSE LET depth == [depth |-> byte(b, off),
                                visuals |-> visuals.list]
                      rest == parse_depths(b, visuals.off, count - 1)
                  IN  [ok |-> rest.ok, off |-> rest.off,
                       list |-> <<depth>> \o rest.list]

\* count roots: a header of 40 bytes whose last byte counts the depths
RECURSIVE parse_roots(_, _, _)
parse_roots(b, off, count) ==
    IF count = 0 THEN [ok |-> TRUE, off |-> off, list |-> <<>>]
    ELSE IF off + 40 > Len(b) THEN Short(off)
    ELSE LET depths == parse_depths(b, off + 40, byte(b, off + 39))
         IN  IF ~depths.ok THEN Short(depths.off)
             ELSE LET root == [root |-> read_u32(b, off),
                               default_colormap |-> read_u32(b, off + 4),
                               white_pixel |-> read_u32(b, off + 8),
                               black_pixel |-> read_u32(b, off + 12),
                               allowed_depths |-> depths.list]
                      rest == parse_roots(b, depths.off, count - 1)
                  IN  [ok |-> rest.ok, off |-> rest.off,
                       list |-> <<root>> \o rest.list]

\* count pixmap formats of 8 bytes each: depth, bits per pixel, scanline
\* pad, 5 padding
RECURSIVE parse_formats(_, _, _)
parse_formats(b, off, count) ==
    IF count = 0 THEN [ok |-> TRUE, off |-> off, list |-> <<>>]
    ELSE IF off + 8 > Len(b) THEN Short(off)
    ELSE LET format == [depth |-> byte(b, off),
                        bits_per_pixel |-> byte(b, off + 1),
                        scanline_pad |-> byte(b, off + 2)]
             rest == parse_formats(b, off + 8, count - 1)
         IN  [ok |-> rest.ok, off |-> rest.off,
              list |-> <<format>> \o rest.list]

\* the Setup of a handshake that could not be decoded
NoSetup == [status |-> 0]

\* Setup::try_from(&[u8]): the 8-byte prefix and the fixed header (40 bytes
\* together), the vendor string padded to four bytes, the pixmap formats,
\* the roots; anything that would reach past the end of b is a ParseError,
\* and bytes of b behind the last root are not looked at. `off` is the
\* number of bytes decoded.
Setup_try_from(b) ==
    IF Len(b) < 40 THEN [ok |-> FALSE, off |-> 0, value |-> NoSetup]
    ELSE
    LET vendor_len == read_u16(b, 24)
        vendor_end == 40 + vendor_len + pad4(vendor_len)
    IN  IF vendor_end > Len(b)
        THEN [ok |-> FALSE, off |-> 40, value |-> NoSetup]
        ELSE
        LET formats == parse_formats(b, vendor_end, byte(b, 29))
        IN  IF ~formats.ok
            THEN [ok |-> FALSE, off |-> formats.off, value |-> NoSetup]
            ELSE
            LET roots == parse_roots(b, formats.off, byte(b, 28))
            IN  IF ~roots.ok
                THEN [ok |-> FALSE, off |-> roots.off, value |-> NoSetup]
                ELSE [ok |-> TRUE, off |-> roots.off,
                      value |-> [status |-> byte(b, 0),
                                 protocol_major_version |-> read_u16(b, 2),
                                 protocol_minor_version |-> read_u16(b, 4),
                                 length |-> read_u16(b, 6),
                                 release_number |-> read_u32(b, 8),
                                 min_keycode |-> byte(b, 34),
                                 max_keycode |-> byte(b, 35),
                                 vendor |-> bytes_at(b, 40, vendor_len),
                                 pixmap_formats |-> formats.list,
                                 roots |-> roots.list]]

\* ----------------------------------------------------- connect, parse_setup

\* a parse_setup that hands the decoder the bytes behind the wrapper only
parse_setup_behind_wrapper(region, overflow_checks, beyond) ==
    LET wrapper == from_raw_parts(region, 8, beyond)
        length == parse_setup_length(length_field(wrapper), overflow_checks)
        slice == from_raw_parts(region, length.len, beyond)
        result == Setup_try_from(SubSeq(slice, 9, Len(slice)))
    IN  IF length.tag = "panic"
        THEN [op |-> "parse_setup", tag |-> "panic", err |-> "overflow",
              buf |-> None, len |-> 0, decoded |-> 0, value |-> NoSetup]
        ELSE IF ~result.ok
        THEN [op |-> "parse_setup", tag |-> "Err", err |-> "ParseError",
              buf |-> None, len |-> length.len, decoded |-> result.off,
              value |-> NoSetup]
        ELSE [op |-> "parse_setup", tag |-> "Ok", err |-> "none",
              buf |-> None, len |-> length.len, decoded |-> result.off,
              value |-> result.value]

\* parse_setup(setup): the length field of the 8-byte wrapper, the slice of
\* length * 4 + 8 bytes from the same pointer, Setup::try_from on it; the
\* region the pointer points at is not consulted for its size. `decoded`
\* is how far the decoder got into the slice.
parse_setup(region, overflow_checks, beyond) ==
    LET wrapper == from_raw_parts(region, 8, beyond)
        length == parse_setup_length(length_field(wrapper), overflow_checks)
    IN  IF length.tag = "panic"
        THEN [op |-> "parse_setup", tag |-> "panic", err |-> "overflow",
              buf |-> None, len |-> 0, decoded |-> 0, value |-> NoSetup]
        ELSE
        LET slice == from_raw_parts(region, length.len, beyond)
            result == Setup_try_from(slice)
        IN  IF beyond = "unmapped" /\ result.off > Len(region)
            THEN [op |-> "parse_setup", tag |-> "crash", err |-> "segv",
                  buf |-> None, len |-> length.len, decoded |-> result.off,
                  value |-> NoSetup]
            ELSE IF ~result.ok
            THEN [op |-> "parse_setup", tag |-> "Err", err |-> "ParseError",
                  buf |-> None, len |-> length.len, decoded |-> result.off,
                  value |-> NoSetup]
            ELSE [op |-> "parse_setup", tag |-> "Ok", err |-> "none",
                  buf |-> None, len |-> length.len, decoded |-> result.off,
                  value |-> result.value]

\* XCBConnection::connect once xcb_connect has returned: the connection's
\* error if it has one (after xcb_disconnect), else the parsed setup and the
\* screen number; disconnected counts the calls of xcb_disconnect it made
connect(error, region, screen, overflow_checks, beyond) ==
    IF error # 0
    THEN [op |-> "connect", tag |-> "Err",
          err |-> connection_error_from_c_error(error), buf |-> None,
          len |-> 0, decoded |-> 0, value |-> NoSetup, screen |-> 0,
          disconnected |-> 1]
    ELSE LET parsed == parse_setup(region, overflow_checks, beyond)
         IN  [parsed EXCEPT !.op = "connect"] @@
                 [screen |-> IF parsed.tag = "Ok" THEN screen ELSE 0,
                  disconnected |-> 0]

\* test::default_setup: the handshake the repository's test hands to connect
zeros(n) == [i \in 1..n |-> 0]

default_setup ==
    LET vendor_len == 2
        num_pixmap_formats == 1
        roots_len == 18
        header == 10
        length == header + vendor_len + 2 * num_pixmap_formats + roots_len
    IN  <<1, 0>> \o u16_bytes(11) \o u16_bytes(0) \o u16_bytes(length)
        \o u32_bytes(305419896) \o u32_bytes(268435456) \o u32_bytes(255)
        \o u32_bytes(0) \o u16_bytes(6) \o u16_bytes(256)
        \o <<1, num_pixmap_formats, 1, 1, 0, 0, 0, 255>> \o <<0, 0, 0, 0>>
        \o <<86, 101, 110, 100, 111, 114, 32, 32>>
        \o <<15, 42, 21>> \o <<0, 0, 0, 0, 0>>
        \o u32_bytes(1) \o u32_bytes(2) \o u32_bytes(3) \o u32_bytes(4)
        \o u32_bytes(0) \o u16_bytes(0) \o u16_bytes(0) \o u16_bytes(0)
        \o u16_bytes(0) \o u16_bytes(0) \o u16_bytes(0) \o u32_bytes(0)
        \o <<0, 0, 0, 1>>
        \o <<99, 0>> \o u16_bytes(1) \o <<0, 0, 0, 0>>
        \o u32_bytes(80) \o <<2, 4>> \o u16_bytes(81) \o u32_bytes(82)
        \o u32_bytes(83) \o u32_bytes(84) \o <<0, 0, 0, 0>>
        \o zeros(1000)

\* what test::xcb_connect_and_setup asserts of the parsed Setup
asserted_setup ==
    [status |-> 1, protocol_major_version |-> 11,
     protocol_minor_version |-> 0, length |-> 32,
     release_number |-> 305419896, min_keycode |-> 0, max_keycode |-> 255,
     vendor |-> <<86, 101, 110, 100, 111, 114>>,
     pixmap_formats |-> <<[depth |-> 15, bits_per_pixel |-> 42,
                           scanline_pad |-> 21]>>,
     roots |-> <<[root |-> 1, default_colormap |-> 2, white_pixel |-> 3,
                  black_pixel |-> 4,
                  allowed_depths |->
                      <<[depth |-> 99,
                         visuals |-> <<[visual_id |-> 80, class |-> 2,
                                        bits_per_rgb_value |-> 4,
                                        colormap_entries |-> 81,
                                        red_mask |-> 82, green_mask |-> 83,
                                        blue_mask |-> 84]>>]>>]>>]

\* ------------------------------------------------- the owners of a region

\* a region behind a raw pointer of the transport: the number of values that
\* own it (whose drop frees it) and the number of times it was freed
RawRegion == [owners |-> 0, released |-> 0]

\* CSlice::new(ptr, len) and Buffer::from_raw_parts(ptr, len): one more owner
CSlice_new(m) == [m EXCEPT !.owners = @ + 1]

Buffer_from_raw_parts(m) == [m EXCEPT !.owners = @ + 1]

\* CSlice::into_ptr: the slice gives the pointer back and frees nothing
into_ptr(m) == [m EXCEPT !.owners = @ - 1]

\* an owner goes out of scope: it frees the region
drop_owner(m) ==
    IF m.owners = 0 THEN m
    ELSE [owners |-> m.owners - 1, released |-> m.released + 1]

\* TryFrom<Buffer> for GenericError / GenericEvent: the view keeps the buffer
\* when the conversion succeeds, the buffer is dropped when it fails
try_into(m, converts) == IF converts THEN m ELSE drop_owner(m)

\* wrap_reply that builds the Buffer from header.as_ptr(): the header view
\* stays an owner and is dropped at the end of wrap_reply
wrap_reply_owned_as_ptr(m) ==
    LET header == CSlice_new(m)
    IN  drop_owner(Buffer_from_raw_parts(header))

\* wrap_reply: the header view of 32 bytes, its length field, and the Buffer
\* of the full length made from header.into_ptr()
wrap_reply_owned(m) ==
    LET header == CSlice_new(m)
    IN  Buffer_from_raw_parts(into_ptr(header))

\* wrap_error
wrap_error_owned(m) == Buffer_from_raw_parts(m)

\* the body of the loop of PendingErrors::get from the point where
\* xcb_poll_for_reply returned: an error is returned to the caller, a reply
\* is converted, found not to be an error, and ignored
get_probe_owned(found, reply, error) ==
    LET polled == poll_for_reply_on(found, reply, error)
        handed == found = 1 /\ (reply # NULL \/ error # NULL)
    IN  IF polled.tag # "OkSome"
        THEN [op |-> "get", tag |-> polled.tag, err |-> polled.err,
              buf |-> None, mem |-> RawRegion, handed |-> FALSE,
              dropped |-> FALSE]
        ELSE IF is_error(polled.buf)
        THEN [op |-> "get", tag |-> "Some", err |-> "none",
              buf |-> polled.buf,
              mem |-> try_into(wrap_error_owned(RawRegion), TRUE),
              handed |-> handed, dropped |-> FALSE]
        ELSE [op |-> "get", tag |-> "ignored", err |-> "none", buf |-> None,
              mem |-> try_into(wrap_reply_owned(RawRegion), FALSE),
              handed |-> handed, dropped |-> FALSE]

\* wait_for_reply_or_error with the owners of what it returns; converts:
\* whether the conversion of the error buffer to GenericError succeeds
wait_for_reply_or_error_owned(reply, error, code, converts) ==
    LET waited == wait_for_reply_or_error_on(reply, error, code)
    IN  IF waited.tag = "Ok"
        THEN waited @@ [mem |-> wrap_reply_owned(RawRegion), handed |-> TRUE,
                        dropped |-> FALSE]
        ELSE IF waited.tag = "X11Error"
        THEN IF converts
             THEN waited @@ [mem |-> try_into(wrap_error_owned(RawRegion),
                                              TRUE),
                             handed |-> TRUE, dropped |-> FALSE]
             ELSE [op |-> "wait_for_reply_or_error",
                   tag |-> "ConnectionError", err |-> "ParseError",
                   buf |-> None,
                   mem |-> try_into(wrap_error_owned(RawRegion), FALSE),
                   handed |-> TRUE, dropped |-> FALSE]
        ELSE waited @@ [mem |-> RawRegion, handed |-> FALSE,
                        dropped |-> FALSE]

\* the event of the transport behind a non-null pointer
wrap_event(response_type) ==
    [kind |-> "event", seq |-> response_type, after |-> 0]

\* the handling of a non-null event pointer without the assertion
event_on_unasserted(op, converts, response_type) ==
    LET buffer == Buffer_from_raw_parts(RawRegion)
    IN  IF ~converts
        THEN [op |-> op, tag |-> "Err", err |-> "ParseError", buf |-> None,
              mem |-> try_into(buffer, FALSE), handed |-> TRUE,
              dropped |-> FALSE]
        ELSE [op |-> op, tag |-> "Ok", err |-> "none",
              buf |-> wrap_event(response_type),
              mem |-> try_into(buffer, TRUE), handed |-> TRUE,
              dropped |-> FALSE]

\* what wait_for_event and poll_for_event do with a non-null event pointer:
\* the Buffer of 32 bytes, its conversion to GenericEvent, the assertion on
\* the response type; a panic drops the event while unwinding
event_on(op, converts, response_type) ==
    LET buffer == Buffer_from_raw_parts(RawRegion)
    IN  IF ~converts
        THEN [op |-> op, tag |-> "Err", err |-> "ParseError", buf |-> None,
              mem |-> try_into(buffer, FALSE), handed |-> TRUE,
              dropped |-> FALSE]
        ELSE IF response_type = 35
        THEN [op |-> op, tag |-> "panic", err |-> "assert_ne", buf |-> None,
              mem |-> drop_owner(try_into(buffer, TRUE)), handed |-> TRUE,
              dropped |-> FALSE]
        ELSE [op |-> op, tag |-> "Ok", err |-> "none",
              buf |-> wrap_event(response_type),
              mem |-> try_into(buffer, TRUE), handed |-> TRUE,
              dropped |-> FALSE]

\* nothing was handed over
no_event(op, tag, err) ==
    [op |-> op, tag |-> tag, err |-> err, buf |-> None, mem |-> RawRegion,
     handed |-> FALSE, dropped |-> FALSE]

\* wait_for_event from the point where self.errors.get found nothing and
\* xcb_wait_for_event returned `event`, on a connection whose
\* xcb_connection_has_error is `code`
wait_for_event_on(event, converts, response_type, code) ==
    IF event = NULL
    THEN LET e == connection_error_from_connection(code)
         IN  IF e = "assert_ne"
             THEN no_event("wait_for_event", "panic", "assert_ne")
             ELSE no_event("wait_for_event", "Err", e)
    ELSE event_on("wait_for_event", converts, response_type)

\* poll_for_event from the point where self.errors.get found nothing and
\* xcb_poll_for_event returned `event`
poll_for_event_on(event, converts, response_type, code) ==
    IF event = NULL
    THEN IF code = 0
         THEN no_event("poll_for_event", "OkNone", "none")
         ELSE no_event("poll_for_event", "Err",
                       connection_error_from_c_error(code))
    ELSE event_on("poll_for_event", converts, response_type)

\* ------------------------------------------- PendingErrors, step by step

\* what no step inside PendingErrors changes
outside == <<out_request, answers, events, evcount, has_error, probes,
             send_ret, xcb_out, ret, setup, screenp,
             disconnects>>

\* self.inner.lock() that does not wait for the Mutex
inner_lock_unguarded(t) == lock' = t

\* self.inner.lock().unwrap(): the caller waits until the Mutex is free
inner_lock(t) ==
    /\ lock = "free"
    /\ lock' = t

\* a MutexGuard that is kept (leaked) instead of dropped
guard_drop_leaked(t) == lock' = lock

\* the MutexGuard goes out of scope
guard_drop(t) == lock' = "free"

\* where a caller stands while it owns the MutexGuard
Locked == {"discard_locked", "append_locked", "get_locked", "get_peek",
           "get_probe", "get_pop_error", "get_pop_other"}

\* the event fetch a caller goes on with when get returned None
after_get(t) == IF t \in Waiters THEN "wait_for_event" ELSE "poll_for_event"

\* Connection::discard_reply(sequence, DiscardReply) is called
CallDiscardReply(t) ==
    \E sequence \in cookies :
        /\ fault = "none"
        /\ pc[t] = "idle"
        /\ cookies' = cookies \ {sequence}
        /\ kept' = kept \cup {sequence}
        /\ local' = [local EXCEPT ![t] = sequence]
        /\ pc' = [pc EXCEPT ![t] = "discard"]
        /\ UNCHANGED <<outside, taken, in_flight, pending, delivered, fault,
                       lock>>

\* Connection::wait_for_reply(sequence) is called and blocks in
\* xcb_wait_for_reply64
CallWaitForReply(t) ==
    \E sequence \in cookies :
        /\ fault = "none"
        /\ pc[t] = "idle"
        /\ cookies' = cookies \ {sequence}
        /\ local' = [local EXCEPT ![t] = sequence]
        /\ pc' = [pc EXCEPT ![t] = "wait_for_reply"]
        /\ UNCHANGED <<outside, taken, in_flight, pending, kept, delivered,
                       fault, lock>>

\* xcb_wait_for_reply64 returns a reply or an error, or nothing on a broken
\* connection; wait_for_reply hands an error to append_error
ReturnWaitForReply(t) ==
    LET sequence == local[t]
        buf == xcb_wait_for_reply64(sequence)
    IN  /\ fault = "none"
        /\ pc[t] = "wait_for_reply"
        /\ has_error # 0
              \/ (sequence <= request_completed /\ answers[sequence] # "none")
        /\ taken' = IF has_error # 0 THEN taken ELSE taken \cup {sequence}
        /\ pc' = [pc EXCEPT ![t] = IF buf # None /\ buf.kind = "error"
                                   THEN "append" ELSE "idle"]
        /\ UNCHANGED <<outside, in_flight, pending, cookies, kept, delivered,
                       fault, lock, local>>

\* wait_for_event or poll_for_event is called and calls self.errors.get
CallGet(t) ==
    /\ fault = "none"
    /\ pc[t] = "idle"
    /\ pc' = [pc EXCEPT ![t] = "get"]
    /\ UNCHANGED <<outside, taken, in_flight, pending, cookies, kept,
                   delivered, fault, lock, local>>

\* self.inner.lock().unwrap() in discard_reply, append_error and get
Lock(t) ==
    /\ fault = "none"
    /\ pc[t] \in {"discard", "append", "get"}
    /\ inner_lock(t)
    /\ pc' = [pc EXCEPT ![t] = IF pc[t] = "discard" THEN "discard_locked"
                               ELSE IF pc[t] = "append" THEN "append_locked"
                               ELSE "get_locked"]
    /\ UNCHANGED <<outside, taken, in_flight, pending, cookies, kept,
                   delivered, fault, local>>

\* PendingErrors::discard_reply: in_flight.push(Reverse(sequence))
DiscardPush(t) ==
    /\ fault = "none"
    /\ pc[t] = "discard_locked"
    /\ in_flight' = heap_push(in_flight, local[t])
    /\ guard_drop(t)
    /\ pc' = [pc EXCEPT ![t] = "idle"]
    /\ UNCHANGED <<outside, taken, pending, cookies, kept, delivered, fault,
                   local>>

\* PendingErrors::append_error: pending.push_back(error)
AppendPush(t) ==
    /\ fault = "none"
    /\ pc[t] = "append_locked"
    /\ pending' = append_error(wrap_error(local[t]))
    /\ guard_drop(t)
    /\ pc' = [pc EXCEPT ![t] = "idle"]
    /\ UNCHANGED <<outside, taken, in_flight, cookies, kept, delivered, fault,
                   local>>

\* PendingErrors::get: pending.pop_front() and the return of what it gave
GetPopFront(t) ==
    /\ fault = "none"
    /\ pc[t] = "get_locked"
    /\ IF pending # <<>>
       THEN /\ pending' = Tail(pending)
            /\ delivered' = Append(delivered, Head(pending))
            /\ guard_drop(t)
            /\ pc' = [pc EXCEPT ![t] = "idle"]
       ELSE /\ pc' = [pc EXCEPT ![t] = "get_peek"]
            /\ UNCHANGED <<pending, delivered, lock>>
    /\ UNCHANGED <<outside, taken, in_flight, cookies, kept, fault, local>>

\* PendingErrors::get: `while let Some(Reverse(seqno)) = in_flight.peek()`
GetPeek(t) ==
    /\ fault = "none"
    /\ pc[t] = "get_peek"
    /\ IF in_flight = <<>>
       THEN /\ guard_drop(t)
            /\ pc' = [pc EXCEPT ![t] = after_get(t)]
            /\ UNCHANGED local
       ELSE /\ local' = [local EXCEPT ![t] = heap_peek(in_flight)]
            /\ pc' = [pc EXCEPT ![t] = "get_probe"]
            /\ UNCHANGED lock
    /\ UNCHANGED <<outside, taken, in_flight, pending, cookies, kept,
                   delivered, fault>>

\* PendingErrors::get: conn.poll_for_reply(*seqno)
GetProbe(t) ==
    LET r == poll_for_reply(local[t], taken)
    IN  /\ fault = "none"
        /\ pc[t] = "get_probe"
        /\ taken' = r.taken
        /\ IF ~r.ok
           THEN /\ guard_drop(t)
                /\ pc' = [pc EXCEPT ![t] = after_get(t)]
           ELSE /\ pc' = [pc EXCEPT ![t] =
                            IF r.buf # None /\ is_error(r.buf)
                            THEN "get_pop_error" ELSE "get_pop_other"]
                /\ UNCHANGED lock
        /\ UNCHANGED <<outside, in_flight, pending, cookies, kept, delivered,
                       fault, local>>

\* PendingErrors::get: in_flight.pop(), assert_eq!(Some(Reverse(seqno)),
\* seqno2), and the return of an error
GetPop(t) ==
    /\ pc[t] \in {"get_pop_error", "get_pop_other"}
    /\ fault = "none"
    /\ in_flight # <<>>
    /\ in_flight' = heap_pop(in_flight)
    /\ IF heap_peek(in_flight) # local[t]
       THEN /\ fault' = "assert_eq"
            /\ UNCHANGED <<delivered, lock, pc>>
       ELSE IF pc[t] = "get_pop_error"
       THEN /\ delivered' = Append(delivered, wrap_error(local[t]))
            /\ guard_drop(t)
            /\ pc' = [pc EXCEPT ![t] = "idle"]
            /\ UNCHANGED fault
       ELSE /\ pc' = [pc EXCEPT ![t] = "get_peek"]
            /\ UNCHANGED <<delivered, lock, fault>>
    /\ UNCHANGED <<outside, taken, pending, cookies, kept, local>>

\* a step of the caller that owns the MutexGuard
LockedStep(t) ==
    \/ DiscardPush(t)
    \/ AppendPush(t)
    \/ GetPopFront(t)
    \/ GetPeek(t)
    \/ GetProbe(t)
    \/ GetPop(t)

\* ------------------------------------------------------------ specification

\* XCBConnection::connect: errors is Default::default(), nothing was sent
Fresh ==
    /\ out_request = 0
    /\ answers = <<>>
    /\ taken = {}
    /\ events = <<>>
    /\ evcount = 0
    /\ in_flight = <<>>
    /\ pending = <<>>
    /\ pc = [t \in Threads |-> "idle"]
    /\ cookies = {}
    /\ kept = {}
    /\ delivered = <<>>
    /\ probes = <<>>
    /\ send_ret = [xcb |-> -1, tag |-> "none", err |-> "none", val |-> 0,
                   isvoid |-> -1, flags |-> 0]
    /\ fault = "none"

\* a connection that xcb_connect established without an error
Connected ==
    /\ Fresh
    /\ has_error = 0

\* no libxcb call handed anything back yet, no operation returned
NoAnswer == [found |-> 0, reply |-> 0, error |-> 0, code |-> 0]

NoRet == [op |-> "none", tag |-> "none", err |-> "none", buf |-> None]

\* nobody is inside PendingErrors
Unlocked ==
    /\ lock = "free"
    /\ local = [t \in Threads |-> 0]

\* nobody is inside PendingErrors; no handshake bytes are looked at
Idle ==
    /\ Unlocked
    /\ setup = <<>>
    /\ screenp = 0
    /\ disconnects = 0

Init ==
    /\ Connected
    /\ xcb_out = NoAnswer
    /\ ret = NoRet
    /\ Idle

Next ==
    \/ Send
    \/ ServerAnswers
    \/ ServerSendsEvent
    \/ ConnectionBreaks
    \/ DiscardReply
    \/ WaitForReply
    \/ WaitForEventGet
    \/ PollForEventGet
    \/ WaitForEvent
    \/ PollForEvent

Spec == Init /\ [][Next]_vars

\* the same under the scheduling the code can count on: the server answers
\* every request, a caller inside wait_for_event goes on running, and
\* xcb_wait_for_event returns once there is an event or the connection is
\* broken; nothing obliges the server to send an event, the connection to
\* break or another caller to poll
WaitSpec ==
    /\ Init
    /\ [][Next]_vars
    /\ WF_vars(ServerAnswers)
    /\ WF_vars(WaitForEventGet)
    /\ WF_vars(WaitForEvent)

\* the same, with every event stamped with its arrival
OrderNext ==
    \/ Send
    \/ ServerAnswers
    \/ ServerSendsStampedEvent
    \/ ConnectionBreaks
    \/ DiscardReply
    \/ WaitForEventGet
    \/ PollForEventGet
    \/ WaitForEvent
    \/ PollForEvent

OrderSpec == Init /\ [][OrderNext]_vars

\* the reconciler with its probes logged, under one caller that sends up to
\* ScenarioSends requests and polls for events
SendScenario ==
    \E args \in SendArgs :
        /\ out_request < ScenarioSends
        /\ send_request(args, FALSE, 0, FALSE)

ScenarioNext ==
    \/ SendScenario
    \/ ServerAnswers
    \/ ConnectionBreaks
    \/ DiscardReply
    \/ WaitForReply
    \/ PollForEventGetLogged
    \/ PollForEvent

ScenarioSpec == Init /\ [][ScenarioNext]_vars

\* a caller that keeps polling for events while the server keeps answering
LiveNext ==
    \/ Send
    \/ ServerAnswers
    \/ ConnectionBreaks
    \/ DiscardReply
    \/ WaitForReply
    \/ PollForEventGet
    \/ PollForEvent

LiveSpec ==
    /\ Init
    /\ [][LiveNext]_vars
    /\ WF_vars(ServerAnswers)
    /\ WF_vars(PollForEventGet \/ PollForEvent)

\* poll_for_reply and wait_for_reply_or_error on everything a libxcb call
\* can hand back: found is 0, 1 or something else (2), each pointer is null
\* or points to the answer of a sequence
Answers ==
    [found : {0, 1, 2}, reply : {NULL} \cup (1..MaxSeq),
     error : {NULL} \cup (1..MaxSeq), code : {0} \cup ErrorCodes]

AnswerInit ==
    /\ Connected
    /\ xcb_out \in Answers
    /\ ret = NoRet
    /\ Idle

PollForReplyOn ==
    /\ ret' = poll_for_reply_on(xcb_out.found, xcb_out.reply, xcb_out.error)
    /\ UNCHANGED <<out_request, answers, taken, events, evcount, has_error,
                   in_flight, pending, pc, cookies, kept, delivered, probes,
                   send_ret, fault, xcb_out, lock, local, setup,
                   screenp, disconnects>>

WaitForReplyOrErrorOn ==
    /\ ret' = wait_for_reply_or_error_on(xcb_out.reply, xcb_out.error,
                                         xcb_out.code)
    /\ UNCHANGED <<out_request, answers, taken, events, evcount, has_error,
                   in_flight, pending, pc, cookies, kept, delivered, probes,
                   send_ret, fault, xcb_out, lock, local, setup,
                   screenp, disconnects>>

AnswerNext ==
    \/ PollForReplyOn
    \/ WaitForReplyOrErrorOn

AnswerSpec == AnswerInit /\ [][AnswerNext]_vars

\* the callers inside PendingErrors step by step, with the Mutex, on a
\* connection that stays healthy and a server that sends no events: a caller
\* of wait_for_event stays blocked in xcb_wait_for_event
LockNext ==
    \/ Send
    \/ ServerAnswers
    \/ \E t \in Threads : CallDiscardReply(t)
    \/ \E t \in Threads : CallWaitForReply(t)
    \/ \E t \in Threads : ReturnWaitForReply(t)
    \/ \E t \in Threads : CallGet(t)
    \/ \E t \in Threads : Lock(t)
    \/ \E t \in Threads : DiscardPush(t)
    \/ \E t \in Threads : AppendPush(t)
    \/ \E t \in Threads : GetPopFront(t)
    \/ \E t \in Threads : GetPeek(t)
    \/ \E t \in Threads : GetProbe(t)
    \/ \E t \in Threads : GetPop(t)
    \/ PollForEvent

\* the owner of the MutexGuard is running code: it takes its next step
LockSpec ==
    /\ Init
    /\ [][LockNext]_vars
    /\ \A t \in Threads : WF_vars(LockedStep(t))

\* a connection that lives long enough for the sequence numbers to pass the
\* range of c_uint: requests whose replies are discarded, and poll_for_event
SendWide ==
    \E args \in SendArgs :
        /\ out_request < CUintModulus + 1
        /\ send_request(args, FALSE, 0, FALSE)

DiscardKeepingErrors ==
    \E sequence \in cookies : discard_reply(sequence, "DiscardReply")

WideNext ==
    \/ SendWide
    \/ ServerAnswers
    \/ DiscardKeepingErrors
    \/ PollForEventGetLogged
    \/ PollForEvent

WideSpec == Init /\ [][WideNext]_vars

\* the first steps of parse_setup on the 8-byte prefix of a handshake, for
\* every value of its length field
Prefix(length) == <<1, 0>> \o u16_bytes(11) \o u16_bytes(0) \o u16_bytes(length)

LengthInit ==
    /\ Connected
    /\ xcb_out = NoAnswer
    /\ ret = NoRet
    /\ Unlocked
    /\ setup \in {Prefix(length) : length \in 0..(U16 - 1)}
    /\ screenp = 0
    /\ disconnects = 0

ParseSetupLength ==
    \E overflow_checks \in BOOLEAN :
        /\ ret' = parse_setup_length(length_field(setup), overflow_checks)
        /\ UNCHANGED <<out_request, answers, taken, events, evcount,
                       has_error, in_flight, pending, pc, cookies, kept,
                       delivered, probes, send_ret, fault, xcb_out, lock,
                       local, setup, screenp, disconnects>>

LengthNext == ParseSetupLength

LengthSpec == LengthInit /\ [][LengthNext]_vars

\* connect on the handshakes a transport can hand over: the test's bytes
\* with every combination of declared length, size of the region and
\* declared counts of roots, pixmap formats and visuals
with_bytes(s, off, bs) ==
    [i \in 1..Len(s) |->
        IF i > off /\ i <= off + Len(bs) THEN bs[i - off] ELSE s[i]]

Lengths == {30, 32, 36, 16382}

Sizes == {Len(default_setup), 136, 128, 127, 123}

Counts == {1, 2}

Region(length, size, roots, formats, visuals) ==
    SubSeq(with_bytes(with_bytes(with_bytes(default_setup,
                                            6, u16_bytes(length)),
                                 28, <<roots, formats>>),
                      98, u16_bytes(visuals)),
           1, size)

SetupInit ==
    /\ Fresh
    /\ has_error \in {0, ERROR}
    /\ xcb_out = NoAnswer
    /\ ret = NoRet
    /\ Unlocked
    /\ setup \in {Region(length, size, roots, formats, visuals) :
                     length \in Lengths, size \in Sizes, roots \in Counts,
                     formats \in Counts, visuals \in Counts}
    /\ screenp \in {0, 1}
    /\ disconnects = 0

Connect ==
    /\ ret = NoRet
    /\ \E overflow_checks \in BOOLEAN, beyond \in Beyond :
           ret' = connect(has_error, setup, screenp, overflow_checks, beyond)
    /\ disconnects' = disconnects + ret'.disconnected
    /\ UNCHANGED <<out_request, answers, taken, events, evcount,
                   has_error, in_flight, pending, pc, cookies, kept,
                   delivered, probes, send_ret, fault, xcb_out, lock,
                   local, setup, screenp>>

\* Drop for XCBConnection: the connection connect returned goes out of scope
Drop ==
    /\ ret # NoRet
    /\ ret.op = "connect"
    /\ ret.tag = "Ok"
    /\ ret' = [ret EXCEPT !.op = "drop"]
    /\ disconnects' = disconnects + 1
    /\ UNCHANGED <<out_request, answers, taken, events, evcount,
                   has_error, in_flight, pending, pc, cookies, kept,
                   delivered, probes, send_ret, fault, xcb_out, lock,
                   local, setup, screenp>>

SetupNext == Connect

SetupSpec == SetupInit /\ [][SetupNext]_vars

\* connect and the life of the connection it returns
ConnectNext ==
    \/ Connect
    \/ Drop

ConnectSpec == SetupInit /\ [][ConnectNext]_vars

\* the operations that wrap a region of the transport, on everything a
\* libxcb call can hand back within its contract (never a reply and an
\* error at once), followed by the caller dropping what it was given
ResponseTypes == {0, 2, 34, 35, 36}

Handovers ==
    {h \in [found : {0, 1}, reply : {NULL, 1}, error : {NULL, 1},
            event : {NULL, 1}, code : {0, ERROR}, converts : BOOLEAN,
            response_type : ResponseTypes] :
        h.reply = NULL \/ h.error = NULL}

BufferInit ==
    /\ Connected
    /\ xcb_out \in Handovers
    /\ ret = NoRet
    /\ Idle

returns(r) ==
    /\ ret = NoRet
    /\ ret' = r
    /\ UNCHANGED <<out_request, answers, taken, events, evcount, has_error,
                   in_flight, pending, pc, cookies, kept, delivered, probes,
                   send_ret, fault, xcb_out, lock, local, setup, screenp,
                   disconnects>>

GetProbeOwned ==
    returns(get_probe_owned(xcb_out.found, xcb_out.reply, xcb_out.error))

WaitForReplyOrErrorOwned ==
    returns(wait_for_reply_or_error_owned(xcb_out.reply, xcb_out.error,
                                          xcb_out.code, xcb_out.converts))

WaitForEventOn ==
    returns(wait_for_event_on(xcb_out.event, xcb_out.converts,
                              xcb_out.response_type, xcb_out.code))

PollForEventOn ==
    returns(poll_for_event_on(xcb_out.event, xcb_out.converts,
                              xcb_out.response_type, xcb_out.code))

\* the caller drops the Buffer, GenericError or GenericEvent it was given
CallerDrops ==
    /\ ret # NoRet
    /\ ~ret.dropped
    /\ ret.mem.owners > 0
    /\ ret' = [ret EXCEPT !.mem = drop_owner(@), !.dropped = TRUE]
    /\ UNCHANGED <<out_request, answers, taken, events, evcount, has_error,
                   in_flight, pending, pc, cookies, kept, delivered, probes,
                   send_ret, fault, xcb_out, lock, local, setup, screenp,
                   disconnects>>

BufferNext ==
    \/ GetProbeOwned
    \/ WaitForReplyOrErrorOwned
    \/ WaitForEventOn
    \/ PollForEventOn
    \/ CallerDrops

BufferSpec == BufferInit /\ [][BufferNext]_vars

\* callers that wait for replies, discard in keep-error mode and poll for
\* events, with what wait_for_reply returned on record
ReplyNext ==
    \/ Send
    \/ ServerAnswers
    \/ ConnectionBreaks
    \/ DiscardKeepingErrors
    \/ WaitForReplyObserved
    \/ PollForEventGet
    \/ PollForEvent

ReplySpec == Init /\ [][ReplyNext]_vars

\* send_request alone, under every outcome of the framing and the transport
SendNext ==
    \/ SendAny
    \/ ConnectionBreaksAny
    \/ ServerAnswers

SendSpec == Init /\ [][SendNext]_vars

\* ------------------------------------------------------ claims: vocabulary

\* the sequences now in the outstanding set
InFlightSet == {in_flight[i] : i \in DOMAIN in_flight}

\* the positions at which the event-fetch calls returned the error of s
ErrorDeliveries(s) ==
    {i \in DOMAIN delivered :
        delivered[i].kind = "error" /\ delivered[i].seq = s}

\* the transport handed the error of s over (to a probe or a wait)
HandedError(s) ==
    s \in taken /\ s <= request_completed /\ answers[s] = "error"

\* a step in which some caller runs PendingErrors::get and gets None
GetNone == \E t \in Threads : pc[t] = "idle" /\ pc'[t] # "idle"

\* a step in which some caller runs PendingErrors::get and gets an error
GetSome == pc' = pc /\ Len(delivered') = Len(delivered) + 1

\* a step in which some caller runs PendingErrors::get
GetStep == GetNone \/ GetSome

\* ------------------------------------------------------------------ C1

\* C1: an error the transport hands over for a sequence discarded in
\* keep-error mode is returned by exactly one event-fetch call: no error is
\* ever returned twice, and a kept sequence leaves the outstanding set only
\* after the transport resolved it (its error, if that is what the probe
\* yielded, then being in what was returned) or on a broken connection,
\* whose probes yield nothing.
C1_ExactlyOnce ==
    /\ \A s \in 1..out_request : Cardinality(ErrorDeliveries(s)) <= 1
    /\ \A s \in kept \ InFlightSet :
          /\ HandedError(s) => Cardinality(ErrorDeliveries(s)) = 1
          /\ s \notin taken => has_error # 0

\* a kept sequence whose error was returned, after which another call of
\* poll_for_event found no pending error
C1_Witness ==
    \E s \in kept \ InFlightSet :
        /\ HandedError(s)
        /\ delivered # <<>> /\ delivered[1] = wrap_error(s)
        /\ pc["t2"] = "poll_for_event"

\* ------------------------------------------------------------------ C2

\* the event e had arrived before the server answered request s
Preceded(e, s) == e.kind = "event" /\ e.after < s

\* C2 as claimed: the error of a kept sequence s is never returned while an
\* event that arrived before s was answered is still in the transport's
\* queue, nor ahead of such an event in what the calls returned.
C2_NeverAheadOfEarlierEvent ==
    \A i \in DOMAIN delivered :
        (delivered[i].kind = "error" /\ delivered[i].seq \in kept) =>
            /\ \A j \in DOMAIN events :
                   ~Preceded(events[j], delivered[i].seq)
            /\ \A j \in DOMAIN delivered :
                   j > i => ~Preceded(delivered[j], delivered[i].seq)

\* a step in which an event-fetch call returns an event of the transport
ReturnsEvent ==
    /\ Len(delivered') = Len(delivered) + 1
    /\ delivered'[Len(delivered')].kind = "event"

\* C2 as amended: the reconciler is consulted first.  An event is returned
\* only by a call whose own PendingErrors::get had reported no pending error,
\* and it is the front of the transport's queue; an error found by get is
\* returned at once, whatever events are queued, and leaves them queued.
C2_ReconcilerFirst ==
    [][/\ ReturnsEvent =>
            /\ \E t \in Threads : pc[t] # "idle" /\ pc'[t] = "idle"
            /\ events # <<>>
            /\ delivered' = Append(delivered, Head(events))
            /\ events' = Tail(events)
       /\ GetSome =>
            /\ delivered'[Len(delivered')].kind = "error"
            /\ events' = events]_vars

\* the error of a kept sequence was returned first and an event that had
\* arrived before that request was answered was returned after it
C2_Witness ==
    /\ Len(delivered) = 2
    /\ delivered[1].kind = "error" /\ delivered[1].seq \in kept
    /\ Preceded(delivered[2], delivered[1].seq)

\* ------------------------------------------------------------------ C3

\* three requests were sent, only sequence 2 was discarded in keep-error
\* mode, and the transport resolved 1 to a reply, 2 to an error, 3 to a reply
ScenarioSet ==
    /\ out_request = 3
    /\ kept = {2}
    /\ has_error = 0
    /\ answers = <<"reply", "error", "reply">>

\* in the scenario the first event-fetch call returns the error of 2
ScenarioFirstFetch ==
    (ScenarioSet /\ ErrorDeliveries(2) = {} /\ GetStep)
        => delivered' = Append(delivered, wrap_error(2))

\* C3 as claimed: in the scenario the first event fetch returns E, no later
\* one returns it again, and the reconciler probes and reports only
\* sequences that were passed to discard_reply in keep-error mode.
C3_OnlyDiscardedReported ==
    /\ [][ScenarioFirstFetch]_vars
    /\ [](/\ Cardinality(ErrorDeliveries(2)) <= 1
          /\ \A i \in DOMAIN probes : probes[i] \in kept
          /\ \A i \in DOMAIN delivered :
                 delivered[i].kind = "error" => delivered[i].seq \in kept)

\* C3 as amended: the reconciler probes only sequences passed to
\* discard_reply in keep-error mode; the errors it reports are those of such
\* sequences and those wait_for_reply queued (sequences whose cookie was
\* consumed and whose error the transport handed over).  In the scenario
\* the first event fetch returns E, no later one returns it again, and 1
\* and 3 are neither probed nor reported.
C3_ProbesOnlyDiscarded ==
    /\ [][ScenarioFirstFetch]_vars
    /\ [](/\ Cardinality(ErrorDeliveries(2)) <= 1
          /\ \A i \in DOMAIN probes : probes[i] \in kept
          /\ \A i \in DOMAIN delivered :
                 delivered[i].kind = "error" =>
                     \/ delivered[i].seq \in kept
                     \/ /\ delivered[i].seq \notin cookies
                        /\ HandedError(delivered[i].seq)
          /\ ScenarioSet =>
                 /\ \A i \in DOMAIN probes : probes[i] = 2
                 /\ \A i \in DOMAIN delivered : delivered[i].seq = 2)

\* the scenario, with E returned by the first event fetch after it and a
\* later poll_for_event finding no pending error
C3_Witness ==
    /\ ScenarioSet
    /\ cookies = {1, 3}
    /\ delivered = <<wrap_error(2)>>
    /\ probes = <<>>
    /\ in_flight = <<>>
    /\ pc["t2"] = "poll_for_event"

\* ------------------------------------------------------------------ C4

\* the transport resolved s, a sequence discarded in keep-error mode, to an
\* error
KeptError(s) ==
    /\ s \in kept
    /\ s <= request_completed
    /\ answers[s] = "error"

\* the error of s waits in the queue of discovered errors
QueuedError(s) == \E i \in DOMAIN pending : pending[i] = wrap_error(s)

\* the errors an event fetch still has to return
Owed == {s \in 1..out_request : KeptError(s) /\ ErrorDeliveries(s) = {}}

\* C4: on a live connection the error of a sequence discarded in keep-error
\* mode is either still outstanding or was returned, and it is eventually
\* returned by an event fetch unless the connection breaks; an error queued
\* by wait_for_reply is eventually returned.  (Errors, once owed, stay owed
\* until returned, so "again and again nothing is owed" says that each of
\* them is eventually returned.)
C4_NeverSilentlyDropped ==
    /\ [](\A s \in kept :
             (has_error = 0 /\ KeptError(s)) =>
                 (s \in InFlightSet \/ ErrorDeliveries(s) # {}))
    /\ []<>(Owed = {} \/ has_error # 0)
    /\ []<>(\A s \in 1..out_request : ~QueuedError(s))

\* the error queued by wait_for_reply for 1 and the error of the discarded
\* sequence 2 were both returned by poll_for_event
C4_Witness ==
    /\ has_error = 0
    /\ kept = {2}
    /\ delivered = <<wrap_error(1), wrap_error(2)>>
    /\ pending = <<>>
    /\ in_flight = <<>>

\* ------------------------------------------------------------------ C5

\* C5: with a non-empty queue of discovered errors, get returns the front of
\* the queue and leaves the rest, probes nothing and leaves the outstanding
\* set alone; append_error adds at the back, so the errors come out in the
\* order they went in.
C5_QueueFrontFirst ==
    [][/\ (pending # <<>> /\ GetStep) =>
             /\ GetSome
             /\ delivered' = Append(delivered, Head(pending))
             /\ pending' = Tail(pending)
             /\ in_flight' = in_flight
             /\ taken' = taken
             /\ probes' = <<>>
       /\ Len(pending') > Len(pending) =>
             \E s \in 1..out_request : pending' = Append(pending, wrap_error(s))
      ]_vars

\* two discovered errors were queued, the first came out first; the error
\* of the outstanding sequence 3 was there to be probed and was left alone
C5_Witness ==
    /\ delivered = <<wrap_error(2)>>
    /\ pending = <<wrap_error(1)>>
    /\ in_flight = <<3>>
    /\ KeptError(3)
    /\ 3 \notin taken
    /\ probes = <<>>

\* ------------------------------------------------------------------ C6

\* the probe of the smallest outstanding sequence says "not yet available"
SmallestNotAvailable ==
    /\ in_flight # <<>>
    /\ xcb_poll_for_reply(narrow(heap_peek(in_flight)), taken).found = 0

\* C6: with an empty queue and the smallest outstanding sequence not yet
\* available, get returns None after that one probe and changes nothing.
C6_StopAtUnavailable ==
    [][(pending = <<>> /\ SmallestNotAvailable /\ GetStep) =>
          /\ GetNone
          /\ probes' = <<heap_peek(in_flight)>>
          /\ in_flight' = in_flight
          /\ UNCHANGED <<pending, taken, delivered>>
      ]_vars

\* get stopped at 2 with 3 behind it: both are still outstanding
C6_Witness ==
    /\ has_error = 0
    /\ request_completed = 1
    /\ in_flight = <<2, 3>>
    /\ probes = <<2>>
    /\ pending = <<>>
    /\ delivered = <<>>
    /\ pc["t2"] = "poll_for_event"

\* ------------------------------------------------------------------ C7

\* the probe of s resolves it (to a reply, an error or nothing)
Resolves(s) == has_error # 0 \/ s <= request_completed

\* the probe of s resolves it to an error
ResolvesToError(s) ==
    /\ has_error = 0
    /\ s <= request_completed
    /\ s \notin taken
    /\ answers[s] = "error"

\* where the scan of the outstanding sequences ends: the first position
\* that is not yet available or resolves to an error, else past the end
ScanEnd ==
    LET stops == {i \in DOMAIN in_flight :
                     ~Resolves(in_flight[i]) \/ ResolvesToError(in_flight[i])}
    IN  IF stops = {} THEN Len(in_flight) + 1
        ELSE CHOOSE i \in stops : \A j \in stops : i <= j

\* C7: a scan probes the outstanding sequences in strictly ascending order up
\* to where it ends; what it resolved is removed; replies and nothings are
\* passed over unreported; the first error is removed and returned, the
\* larger sequences stay; an exhausted set gives None.
C7_AscendingScan ==
    [][(pending = <<>> /\ GetStep) =>
          LET n == Len(in_flight)
              e == ScanEnd
              last == IF e > n THEN n ELSE e
          IN  /\ probes' = SubSeq(in_flight, 1, last)
              /\ \A i, j \in DOMAIN probes' : i < j => probes'[i] < probes'[j]
              /\ \A i \in DOMAIN probes' :
                    Resolves(probes'[i]) => probes'[i] \notin InFlightSet'
              /\ \A s \in InFlightSet :
                    (last > 0 /\ s > in_flight[last]) => s \in InFlightSet'
              /\ pending' = <<>>
              /\ IF e <= n /\ ResolvesToError(in_flight[e])
                 THEN /\ GetSome
                      /\ delivered' = Append(delivered, wrap_error(in_flight[e]))
                      /\ in_flight' = SubSeq(in_flight, e + 1, n)
                 ELSE /\ GetNone
                      /\ delivered' = delivered
                      /\ in_flight' = SubSeq(in_flight, e, n)
      ]_vars

\* one scan passed over the reply of 1, returned the error of 2 and left 3
C7_Witness ==
    /\ kept = {1, 2, 3}
    /\ request_completed = 3
    /\ answers[1] = "reply" /\ answers[2] = "error"
    /\ probes = <<1, 2>>
    /\ delivered = <<wrap_error(2)>>
    /\ in_flight = <<3>>
    /\ taken = {1, 2}

\* ------------------------------------------------------------------ C8

\* C8: when get returns None the queue of discovered errors is empty and no
\* outstanding sequence has an error that the transport already holds.
C8_NoSkippedError ==
    [][GetNone =>
          /\ pending' = <<>>
          /\ \A s \in InFlightSet' :
                ~(s <= request_completed /\ answers[s] = "error"
                    /\ s \notin taken')
      ]_vars

\* get passed over the resolved 1 and 2 and returned None at the
\* unanswered 3
C8_Witness ==
    /\ has_error = 0
    /\ kept = {1, 2, 3}
    /\ request_completed = 2
    /\ probes = <<1, 2, 3>>
    /\ in_flight = <<3>>
    /\ delivered = <<>>
    /\ pc["t2"] = "poll_for_event"

\* ------------------------------------------------------------------ C9

\* the seven named kinds of ConnectionError, by connection error code
NamedKinds ==
    <<"ConnectionError", "UnsupportedExtension", "InsufficientMemory",
      "MaximumRequestLengthExceeded", "DisplayParsingError", "InvalidScreen",
      "FDPassingFailed">>

\* what the last send returned agrees with what the transport returned
SendResultClassified ==
    /\ fault # "assert_ne"
    /\ send_ret.tag = "Ok" <=> send_ret.xcb > 0
    /\ send_ret.tag = "Ok" => send_ret.val = send_ret.xcb
    /\ send_ret.xcb = 0 =>
          /\ send_ret.tag = "Err"
          /\ has_error # 0
          /\ \A code \in 1..Len(NamedKinds) :
                send_ret.err = NamedKinds[code] <=> has_error = code
          /\ send_ret.err = "UnknownError" <=> has_error \notin 1..Len(NamedKinds)

\* a successful send issues the next sequence number and no other
SendIssuesOne ==
    /\ out_request' # out_request =>
          /\ out_request' = out_request + 1
          /\ send_ret'.tag = "Ok"
          /\ send_ret'.val = out_request'
          /\ cookies' = cookies \cup {out_request'}
    /\ (send_ret' # send_ret /\ send_ret'.tag = "Ok") =>
          out_request' = out_request + 1
    /\ (send_ret' # send_ret /\ send_ret'.tag = "Err") =>
          /\ out_request' = out_request
          /\ cookies' = cookies

\* C9: send_request returns Ok with the transport's sequence number exactly
\* when that number is nonzero, and issues one sequence number per Ok; on a
\* zero it returns the ConnectionError of the connection's error code, the
\* codes 1..7 giving the seven named kinds and UnknownError standing for
\* every other code, and the assert_ne of the classification never fails.
C9_SendResult ==
    /\ Cardinality({NamedKinds[code] : code \in DOMAIN NamedKinds}) = 7
    /\ []SendResultClassified
    /\ [][SendIssuesOne]_vars

\* after one successful send the connection broke with a code beyond the
\* named ones and the next send returned UnknownError
C9_Witness ==
    /\ out_request = 1
    /\ cookies = {1}
    /\ has_error = FDPASSING_FAILED + 1
    /\ send_ret.xcb = 0
    /\ send_ret.err = "UnknownError"

\* ----------------------------------------------------------------- C10

\* bit is set in flags
has_flag(flags, bit) == (flags \div bit) % 2 = 1

\* C10: the three public send operations satisfy has_reply || !reply_has_fds,
\* the assertion of send_request never fails, and a request handed to the
\* transport with REPLY_FDS is not void.
C10_ReplyFdsNeedsReply ==
    /\ \A args \in SendArgs : args.reply_has_fds => args.has_reply
    /\ fault # "assert_has_reply"
    /\ has_flag(send_ret.flags, REPLY_FDS) => send_ret.isvoid = 0

\* a send_request_with_reply_with_fds went out with RAW, CHECKED and
\* REPLY_FDS and isvoid 0
C10_Witness ==
    /\ send_ret.tag = "Ok"
    /\ send_ret.isvoid = 0
    /\ has_flag(send_ret.flags, REPLY_FDS)
    /\ has_flag(send_ret.flags, CHECKED)
    /\ has_flag(send_ret.flags, RAW)

\* ----------------------------------------------------------------- C11

C12_PollOutcome ==
    ret.op = "poll_for_reply" =>
        LET f == xcb_out.found  r == xcb_out.reply  e == xcb_out.error
        IN  /\ ret.tag \in {"Err", "OkNone", "OkSome", "panic"}
            /\ f = 0 <=> ret.tag = "Err"
            /\ (f = 1 /\ r = NULL /\ e = NULL) <=> ret.tag = "OkNone"
            /\ (f = 1 /\ ((r = NULL) # (e = NULL))) <=> ret.tag = "OkSome"
            /\ ret.tag = "OkSome" =>
                  ret.buf = IF r # NULL
                            THEN [kind |-> "reply", seq |-> r, after |-> 0]
                            ELSE [kind |-> "error", seq |-> e, after |-> 0]
            /\ (f \notin {0, 1} \/ (f = 1 /\ r # NULL /\ e # NULL)) <=>
                  ret.tag = "panic"

\* found = 1 with both pointers set ended in unreachable!()
C12_Witness ==
    /\ ret.op = "poll_for_reply"
    /\ xcb_out.found = 1 /\ xcb_out.reply # NULL /\ xcb_out.error # NULL
    /\ ret.tag = "panic" /\ ret.err = "unreachable"

\* ----------------------------------------------------------------- C13

\* a step of discard_reply: a caller gives up a cookie without waiting
DiscardStep == out_request' = out_request /\ cookies' # cookies

\* heap2 is heap with s put in at some place
OneMore(heap, heap2, s) ==
    \E i \in 1..(Len(heap) + 1) :
        heap2 = SubSeq(heap, 1, i - 1) \o <<s>> \o SubSeq(heap, i, Len(heap))

\* C13: a discard_reply in mode DiscardReplyAndError has the transport drop
\* the sequence and leaves the outstanding set and the queue of discovered
\* errors as they were; in mode DiscardReply it adds that one sequence to
\* the outstanding set, leaves the queue as it was and does not touch the
\* transport.
C13_DiscardEffects ==
    [][DiscardStep =>
          \E s \in cookies :
             /\ cookies' = cookies \ {s}
             /\ pending' = pending
             /\ UNCHANGED <<out_request, answers, events, evcount, has_error>>
             /\ \/ /\ kept' = kept
                   /\ taken' = taken \cup {s}
                   /\ in_flight' = in_flight
                \/ /\ kept' = kept \cup {s}
                   /\ taken' = taken
                   /\ OneMore(in_flight, in_flight', s)
      ]_vars

\* 1 was discarded in mode DiscardReply and is outstanding, 2 was discarded
\* in mode DiscardReplyAndError and dropped by the transport
C13_Witness ==
    /\ out_request = 2
    /\ cookies = {}
    /\ kept = {1}
    /\ in_flight = <<1>>
    /\ taken = {2}
    /\ pending = <<>>

\* ----------------------------------------------------------------- C14

\* caller t is on its way to push s (discard_reply) or to queue the error of
\* s (append_error), or has popped the error of s and is about to return it
Carries(t, s, places) == pc[t] \in places /\ local[t] = s

\* C14: whatever the interleaving of discard_reply, append_error and get,
\* at most one caller is between lock and unlock, the assert_eq of get never
\* fails, every discarded sequence is outstanding until a probe resolved
\* it, and every error handed to append_error or popped by get is queued or
\* returned.
C14_AtomicGet ==
    /\ fault # "assert_eq"
    /\ \A t \in Threads : pc[t] \in Locked <=> lock = t
    /\ \A t \in Threads :
          pc[t] \in {"get_probe", "get_pop_error", "get_pop_other"} =>
              (in_flight # <<>> /\ heap_peek(in_flight) = local[t])
    /\ \A s \in kept :
          \/ s \in InFlightSet
          \/ s \in taken
          \/ \E t \in Threads : Carries(t, s, {"discard", "discard_locked"})
    /\ \A s \in 1..out_request :
          HandedError(s) =>
              \/ ErrorDeliveries(s) # {}
              \/ QueuedError(s)
              \/ \E t \in Threads :
                    Carries(t, s, {"append", "append_locked", "get_pop_error"})

\* while t1 stood between its probe of 2 and its pop, t2 was inside
\* discard_reply(1) waiting for the Mutex
C14_Witness ==
    /\ pc["t1"] = "get_pop_error" /\ local["t1"] = 2
    /\ pc["t2"] = "discard" /\ local["t2"] = 1
    /\ in_flight = <<2>>
    /\ lock = "t1"

\* ----------------------------------------------------------------- C15

\* a caller blocked in xcb_wait_for_event or xcb_wait_for_reply64
Blocked(t) == pc[t] \in {"wait_for_event", "wait_for_reply"}

\* C15: a caller blocked in the transport's blocking wait does not own the
\* MutexGuard; the owner always has a next step to take, so the Mutex is
\* free again and again and the other callers' discard_reply, poll_for_event
\* and wait_for_reply are never held up by a blocked caller.
C15_BlockedWithoutLock ==
    /\ [](\A t \in Threads : Blocked(t) => lock # t)
    /\ [](\A t \in Threads : lock = t => ENABLED LockedStep(t))
    /\ []<>(lock = "free")

\* t1 is blocked in xcb_wait_for_event; meanwhile t2 discarded 1, and its
\* poll_for_event returned the error of 1
C15_Witness ==
    /\ pc["t1"] = "wait_for_event"
    /\ lock = "free"
    /\ kept = {1}
    /\ delivered = <<wrap_error(1)>>
    /\ pc["t2"] = "idle"

\* ----------------------------------------------------------------- C16

\* C16 as claimed: a sequence is presented to the transport by its full
\* number, so the request the transport resolves is the one the caller
\* named: no answer is taken from the transport while its cookie is still
\* held, and the errors that poll_for_event returns are those of discarded
\* sequences.
C16_FullWidthSequences ==
    /\ taken \cap cookies = {}
    /\ \A i \in DOMAIN delivered :
          delivered[i].kind = "error" => delivered[i].seq \in kept

\* ----------------------------------------------------------------- C17

\* C17 as claimed: for every value of the length field parse_setup computes
\* length * 4 + 8 exactly, without a panic and without wrapping around, and
\* hands a slice of that many bytes to the decoder.
C17_ExactTotalLength ==
    ret.op = "parse_setup_length" =>
        /\ ret.tag = "slice"
        /\ ret.len = length_field(setup) * 4 + 8

\* ----------------------------------------------------------------- C18

\* connect returned a Setup
ConnectOk == ret.op = "connect" /\ ret.tag = "Ok"

\* the counts the handshake declares for its top-level lists
declared_roots == byte(setup, 28)

declared_formats == byte(setup, 29)

declared_vendor == read_u16(setup, 24)

\* C18: connect on the handshake built by the test, on a connection without
\* an error whose screen is 0, succeeds with screen 0 and a Setup whose
\* fields and nested lists are exactly the encoded ones; and every Setup
\* that connect returns has as many roots, pixmap formats and vendor bytes
\* as the handshake declares, with the encoded version numbers.
C18_TestHandshakeDecodes ==
    /\ (ret.op = "connect" /\ setup = default_setup /\ has_error = 0
            /\ screenp = 0) =>
           /\ ret.tag = "Ok"
           /\ ret.screen = 0
           /\ ret.value = asserted_setup
    /\ ConnectOk =>
           /\ ret.screen = screenp
           /\ Len(ret.value.roots) = declared_roots
           /\ Len(ret.value.pixmap_formats) = declared_formats
           /\ Len(ret.value.vendor) = declared_vendor
           /\ ret.value.status = byte(setup, 0)
           /\ ret.value.protocol_major_version = read_u16(setup, 2)
           /\ ret.value.release_number = read_u32(setup, 8)

C18_Witness ==
    /\ ConnectOk
    /\ setup = default_setup
    /\ screenp = 0
    /\ ret.value.roots[1].allowed_depths[1].visuals[1].blue_mask = 84

\* ----------------------------------------------------------------- C19

\* C19 as claimed: whenever connect returns a Setup, the number of bytes
\* decoded equals the total the header declares, length * 4 + 8.
C19_DecodedMatchesDeclared ==
    ConnectOk => ret.decoded = length_field(setup) * 4 + 8

\* ----------------------------------------------------------------- C20

\* the header declares more bytes than the region holds (and no more than
\* the 16-bit computation can represent)
DeclaresMoreThanProvided ==
    /\ length_field(setup) * 4 + 8 > Len(setup)
    /\ length_field(setup) * 4 + 8 < U16

\* C20 as claimed: connect never decodes past the end of the region
\* provided, and a region shorter than the header declares gives a
\* ParseError.
C20_NoReadOutsideRegion ==
    (ret.op = "connect" /\ has_error = 0) =>
        /\ ret.tag # "crash"
        /\ ret.decoded <= Len(setup)
        /\ DeclaresMoreThanProvided =>
               (ret.tag = "Err" /\ ret.err = "ParseError")

\* ----------------------------------------------------------------- C21

\* an operation that wraps a region has returned
Wrapped == ret # NoRet

\* C21: a region the transport handed over is never freed twice and never
\* has two owners; once the operation has returned it has exactly one owner
\* or was freed exactly once (a reply the reconciler ignores, a buffer whose
\* conversion failed, an event dropped by the panic), and once the caller
\* has dropped what it was given the region was freed exactly once. Nothing
\* is freed when nothing was handed over.
C21_ReleasedExactlyOnce ==
    Wrapped =>
        /\ ret.mem.released <= 1
        /\ ret.mem.owners <= 1
        /\ ret.handed => ret.mem.owners + ret.mem.released = 1
        /\ ~ret.handed => ret.mem = RawRegion
        /\ ret.dropped => ret.mem = [owners |-> 0, released |-> 1]
        /\ ret.tag \in {"ignored", "panic", "Err", "ConnectionError"} =>
               ret.mem.owners = 0

C21_Witness ==
    /\ Wrapped
    /\ ret.op = "wait_for_reply_or_error"
    /\ ret.tag = "Ok"
    /\ ret.dropped
    /\ ret.mem.released = 1

\* ----------------------------------------------------------------- C22

\* wait_for_event or poll_for_event has returned after the transport handed
\* it an event
EventTaken ==
    /\ ret # NoRet
    /\ ret.op \in {"wait_for_event", "poll_for_event"}
    /\ xcb_out.event # NULL

\* C22: neither wait_for_event nor poll_for_event returns an event of the
\* transport whose response type is 35: whenever one of them returns an
\* event its response type is not 35, and an event of response type 35 that
\* converts to a GenericEvent ends in the failed assertion.
C22_ExtendedEventRejected ==
    EventTaken =>
        /\ ret.tag = "Ok" => ret.buf.seq # 35
        /\ ret.tag = "Ok" => ret.buf.seq = xcb_out.response_type
        /\ (xcb_out.response_type = 35 /\ xcb_out.converts) =>
               (ret.tag = "panic" /\ ret.err = "assert_ne")
        /\ ret.tag # "OkNone"

C22_Witness ==
    /\ EventTaken
    /\ ret.op = "poll_for_event"
    /\ xcb_out.response_type = 35
    /\ ret.tag = "panic"

\* ----------------------------------------------------------------- C23

\* C23 as claimed: the errors the event-fetch calls return come in the order
\* of their requests.
C23_RequestOrder ==
    \A i, j \in DOMAIN delivered :
        (i < j /\ delivered[i].kind = "error" /\ delivered[j].kind = "error")
            => delivered[i].seq < delivered[j].seq

\* the error that the step GetSome returned
Returned == delivered'[Len(delivered')]

\* C23, amended: errors are returned in the order of their discovery. An
\* error queued by wait_for_reply is returned before anything is probed;
\* an error found by the scan belongs to a sequence that was outstanding,
\* every sequence the scan removed is at most that sequence and every
\* sequence still outstanding afterwards is larger, so the errors of
\* sequences that are outstanding together are returned in ascending order.
C23_DiscoveryOrder ==
    [][GetSome =>
          IF pending # <<>>
          THEN Returned = Head(pending) /\ in_flight' = in_flight
          ELSE /\ Returned.kind = "error"
               /\ Returned.seq \in InFlightSet
               /\ \A b \in InFlightSet \ InFlightSet' : b <= Returned.seq
               /\ \A b \in InFlightSet' : Returned.seq < b
      ]_vars

\* both sequences were outstanding together and their errors were returned
\* in ascending order
C23_Witness ==
    /\ kept = {1, 2}
    /\ delivered = <<wrap_error(1), wrap_error(2)>>
    /\ in_flight = <<>>

\* ----------------------------------------------------------------- C24

\* a caller of wait_for_event is blocked in xcb_wait_for_event while the
\* error of the outstanding sequence s has been resolved by the transport
BlockedWithResolvedError(s) ==
    /\ \E t \in Waiters : pc[t] = "wait_for_event"
    /\ s \in InFlightSet
    /\ KeptError(s)
    /\ has_error = 0

\* C24 as claimed: the error of a keep-error discarded sequence that the
\* transport resolves while a caller is blocked in wait_for_event surfaces
\* without an event having to arrive: the error is returned, or at least
\* the blocked call returns.
C24_BlockedWaitReturns ==
    \A s \in 1..MaxSeq :
        BlockedWithResolvedError(s) ~>
            (ErrorDeliveries(s) # {} \/ \A t \in Waiters : pc[t] = "idle")

\* ----------------------------------------------------------------- C25

\* a step in which wait_for_reply returns
WaitStep == out_request' = out_request /\ cookies' # cookies /\ kept' = kept

\* how often the error of s stands in the queue of discovered errors
TimesQueued(s) ==
    Cardinality({i \in DOMAIN pending : pending[i] = wrap_error(s)})

\* C25: a wait_for_reply that observes the X11 error of its sequence returns
\* Ok(None) and puts that error once at the back of the queue of discovered
\* errors; one that observes a reply returns it, one on a broken connection
\* returns the connection error, and both leave the queue and the
\* outstanding set as they were. The event fetches take the queue from the
\* front, so the error is returned after those queued before it, and no
\* error is queued or returned twice.
C25_WaitQueuesError ==
    /\ [][WaitStep =>
             \E s \in cookies :
                /\ cookies' = cookies \ {s}
                /\ in_flight' = in_flight
                /\ ret'.op = "wait_for_reply"
                /\ IF has_error = 0 /\ answers[s] = "error"
                   THEN /\ ret'.tag = "OkNone"
                        /\ pending' = Append(pending, wrap_error(s))
                   ELSE /\ pending' = pending
                        /\ has_error = 0 =>
                               (ret'.tag = "OkSome"
                                    /\ ret'.buf = wrap_reply(s))
                        /\ has_error # 0 => ret'.tag = "Err"
         ]_vars
    /\ [][(GetSome /\ pending # <<>>) =>
             (Returned = Head(pending) /\ pending' = Tail(pending))]_vars
    /\ [](\A s \in 1..MaxSeq :
             TimesQueued(s) + Cardinality(ErrorDeliveries(s)) <= 1)

\* wait_for_reply queued the error of 1 and then the error of 2; the first
\* was returned by poll_for_event, the second is still queued
C25_Witness ==
    /\ ret.op = "wait_for_reply"
    /\ ret.tag = "OkNone"
    /\ delivered = <<wrap_error(1)>>
    /\ pending = <<wrap_error(2)>>

\* ----------------------------------------------------------------- C26

\* connect returned an error, or the connection it returned was dropped
ConnectionOver ==
    /\ ret # NoRet
    /\ \/ ret.op = "connect" /\ ret.tag = "Err"
       \/ ret.op = "drop"

\* C26 as claimed: the connection xcb_connect opened is never disconnected
\* twice, and it was disconnected exactly once when connect returned an
\* error (the transport's or a ParseError of the handshake) and when the
\* XCBConnection that connect returned was dropped.
C26_DisconnectedExactlyOnce ==
    /\ disconnects <= 1
    /\ ConnectionOver => disconnects = 1

====
